---- MODULE Spec2Model ----
(***************************************************************************)
(* Ceres: the incremental harvest pipeline (batch_harvest, sync_portal and *)
(* its record tasks), the content-hash delta decider and the dataset       *)
(* repository, as state machines.                                          *)
(*                                                                         *)
(* Conventions.  A Rust Option is a sequence of length at most one: None   *)
(* is <<>> and Some(x) is <<x>>.  A Rust String is a sequence of one-      *)
(* character strings, so that trimming and concatenation are computed.     *)
(***************************************************************************)
EXTENDS Integers, Sequences, FiniteSets, TLC

VARIABLES
    \* ---- needs_reprocessing, applied to literal inputs
    existing_hash,   \* Option<&Option<String>> argument
    new_hash,        \* &str argument
    decision,        \* Option<ReprocessingDecision>: the value returned, once called
    \* ---- the datasets table and the database clock
    store,           \* set of rows of table datasets
    now,             \* value NOW() evaluates to
    lastCall,        \* the repository call that returned last (direct repository use)
    calls,           \* number of repository calls made (direct repository use)
    \* ---- batch_harvest / sync_portal
    portals,         \* the enabled portal list handed to batch_harvest
    catalog,         \* revision of dataset "A" the CKAN server serves during the batch
    summary,         \* BatchHarvestSummary.results
    portal_i,        \* batch_harvest's loop position in the portal list, from 1
    phase,           \* where batch_harvest / sync_portal stands
    existing_hashes, \* sync_portal's snapshot of get_hashes_for_portal
    tasks,           \* the record tasks of the running sync_portal, by position
    stats,           \* AtomicSyncStats of the running sync_portal
    clean,           \* no catalog or store call of the running sync_portal failed
    runlog,          \* per finished sync_portal: what it listed, the catalog revision
                     \* it ran against, and whether it ran clean
    \* ---- CkanClient::request_with_retry
    attempt,         \* the loop variable of `for attempt in 1..=MAX_RETRIES`
    last_error,      \* the local of that name
    responses,       \* what the server or the transport answered to each request sent
    delays,          \* the durations slept, in milliseconds
    retval,          \* Option<Result<Response, AppError>>: the value returned, if any
    \* ---- SyncStats used on its own
    outcomes         \* the outcomes handed to SyncStats::record so far

decideVars == <<existing_hash, new_hash, decision>>
repoVars == <<store, now>>
directVars == <<lastCall, calls>>
harvestVars == <<portals, catalog, summary, portal_i, phase, existing_hashes, tasks, stats,
                 clean, runlog>>
retryVars == <<attempt, last_error, responses, delays, retval>>
tallyVars == <<outcomes>>
vars == <<existing_hash, new_hash, decision, store, now, lastCall, calls,
          portals, catalog, summary, portal_i, phase, existing_hashes, tasks, stats,
          clean, runlog, attempt, last_error, responses, delays, retval, outcomes>>

\* ------------------------------------------------------------------ bounds

MaxHashLen == 2      \* longest digest handed to the decider on its own
MaxCalls == 3        \* repository calls in a direct-use behaviour
MaxClock == 1        \* last tick of the database clock
MaxPortals == 2      \* longest enabled portal list
MaxListed == 2       \* longest package_list answer

\* ------------------------------------------------------------------ options and strings

None == <<>>
Some(x) == <<x>>
IsSome(o) == Len(o) = 1
Unwrap(o) == o[1]

RECURSIVE TrimStart(_)
TrimStart(s) == IF s # <<>> /\ Head(s) = " " THEN TrimStart(Tail(s)) ELSE s

RECURSIVE TrimEnd(_)
TrimEnd(s) ==
    IF s # <<>> /\ s[Len(s)] = " " THEN TrimEnd(SubSeq(s, 1, Len(s) - 1)) ELSE s

\* str::trim
Trim(s) == TrimEnd(TrimStart(s))

RECURSIVE TrimEndMatchesSlash(_)
\* str::trim_end_matches('/')
TrimEndMatchesSlash(s) ==
    IF s # <<>> /\ s[Len(s)] = "/"
    THEN TrimEndMatchesSlash(SubSeq(s, 1, Len(s) - 1))
    ELSE s

\* Option<String>::as_deref().unwrap_or_default()
UnwrapOrDefault(o) == IF IsSome(o) THEN Unwrap(o) ELSE <<>>

\* ------------------------------------------------------------------ sync.rs

SyncOutcomes == {"Unchanged", "Updated", "Created", "Failed"}

ReprocessingDecision(ne, oc, rs) == [needs_embedding |-> ne, outcome |-> oc, reason |-> rs]

\* A decider that takes a legacy row (stored, hash column NULL) for an unchanged one.
needs_reprocessing_legacy_unchanged(existing, h) ==
    IF IsSome(existing) /\ IsSome(Unwrap(existing)) /\ Unwrap(Unwrap(existing)) = h
    THEN ReprocessingDecision(FALSE, "Unchanged", "content hash matches")
    ELSE IF IsSome(existing) /\ IsSome(Unwrap(existing))
    THEN ReprocessingDecision(TRUE, "Updated", "content hash changed")
    ELSE IF IsSome(existing)
    THEN ReprocessingDecision(FALSE, "Unchanged", "content hash matches")
    ELSE ReprocessingDecision(TRUE, "Created", "new dataset")

\* needs_reprocessing(existing_hash, new_hash): the four match arms in order.
needs_reprocessing(existing, h) ==
    IF IsSome(existing) /\ IsSome(Unwrap(existing)) /\ Unwrap(Unwrap(existing)) = h
    THEN ReprocessingDecision(FALSE, "Unchanged", "content hash matches")
    ELSE IF IsSome(existing) /\ IsSome(Unwrap(existing))
    THEN ReprocessingDecision(TRUE, "Updated", "content hash changed")
    ELSE IF IsSome(existing)
    THEN ReprocessingDecision(TRUE, "Updated", "legacy record without hash")
    ELSE ReprocessingDecision(TRUE, "Created", "new dataset")

\* SyncStats::default
NewStats == [unchanged |-> 0, updated |-> 0, created |-> 0, failed |-> 0]

\* AtomicSyncStats::record: one fetch_add on the counter of the outcome.
Record(s, outcome) ==
    CASE outcome = "Unchanged" -> [s EXCEPT !.unchanged = @ + 1]
      [] outcome = "Updated" -> [s EXCEPT !.updated = @ + 1]
      [] outcome = "Created" -> [s EXCEPT !.created = @ + 1]
      [] outcome = "Failed" -> [s EXCEPT !.failed = @ + 1]

\* SyncStats::total
Total(s) == s.unchanged + s.updated + s.created + s.failed

\* ------------------------------------------------------------------ the CKAN server

\* Portal urls: one portal under two spellings, and one string Url::parse rejects.
PortalA == <<"h", "t", "t", "p", ":", "/", "/", "a">>
PortalASlash == <<"h", "t", "t", "p", ":", "/", "/", "a", "/">>
PortalBad == <<"a">>

\* Url::parse(base_url_str).is_ok(): a scheme, "://" and a host.
UrlParses(u) == Len(u) >= 8 /\ SubSeq(u, 1, 7) = <<"h", "t", "t", "p", ":", "/", "/">>

\* The ids package_list may name, and the dataset each resolves to: package_show
\* takes a dataset's id or its name.
ListedIds == {"a", "a-name", "b"}
Resolve(id) == IF id = "b" THEN "B" ELSE "A"
\* package_list answers in the order of the names.
Rank(id) == CASE id = "a" -> 1 [] id = "a-name" -> 2 [] id = "b" -> 3
OriginalIds == {"A", "B"}
Revisions == {0, 1, 2}

\* CkanDataset: what package_show answers for dataset oid at revision rev.
\* Dataset "B" is never edited.
CkanDataset(oid, rev) ==
    IF oid = "B"
    THEN [id |-> "B", name |-> "b", title |-> <<"B">>, notes |-> Some(<<"d">>),
          extras |-> "org1"]
    ELSE CASE rev = 0 -> [id |-> "A", name |-> "a-name", title |-> <<>>, notes |-> None,
                          extras |-> "org1"]
           [] rev = 1 -> [id |-> "A", name |-> "a-name", title |-> <<"T">>, notes |-> None,
                          extras |-> "org1"]
           [] rev = 2 -> [id |-> "A", name |-> "a-renamed", title |-> <<"T">>,
                          notes |-> Some(<<"d">>), extras |-> "org2"]

\* NewDataset::compute_content_hash(title, description): the digest of the title,
\* a separator octet and the description (a missing description as empty).  The
\* digest is collision free, so it is modelled by the octets it is taken of.
ComputeContentHash(title, description) ==
    title \o <<"|">> \o UnwrapOrDefault(description)

\* CkanClient::into_new_dataset.  content_hash is the field sync_portal hands to
\* needs_reprocessing and upsert binds as $8; it is the digest of the title and
\* the description (NewDataset::compute_content_hash).
IntoNewDataset(dataset, portal_url) ==
    [original_id |-> dataset.id,
     source_portal |-> portal_url,
     url |-> TrimEndMatchesSlash(portal_url) \o <<"/dataset/">> \o <<dataset.name>>,
     title |-> dataset.title,
     description |-> dataset.notes,
     embedding |-> None,
     metadata |-> dataset.extras,
     content_hash |-> ComputeContentHash(dataset.title, dataset.notes)]

\* format!("{} {}", title, description.as_deref().unwrap_or_default())
CombinedText(nd) == nd.title \o <<" ">> \o UnwrapOrDefault(nd.description)

\* GeminiClient::get_embeddings(text), when it succeeds: the vector of the text.
Embedding(text) == <<"vec", text>>

\* ------------------------------------------------------------------ repository.rs

Key(r) == <<r.source_portal, r.original_id>>

RowsOf(st, portal_url, original_id) ==
    {r \in st : r.source_portal = portal_url /\ r.original_id = original_id}

\* The id column's default: an id no row carries.
FreshId(st) == CHOOSE n \in 1..(Cardinality(st) + 1) : \A r \in st : r.id # n

\* first_seen_at is not in the column list of the INSERT: the column takes its
\* default, the time of the statement that first observes the key.
FirstSeenAtDefault(t) == t

\* The row INSERT writes; first_seen_at takes the column default NOW().
InsertedRow(st, nd, t) ==
    [id |-> FreshId(st),
     original_id |-> nd.original_id,
     source_portal |-> nd.source_portal,
     url |-> nd.url,
     title |-> nd.title,
     description |-> nd.description,
     embedding |-> nd.embedding,
     metadata |-> nd.metadata,
     first_seen_at |-> FirstSeenAtDefault(t),
     last_updated_at |-> t,
     content_hash |-> Some(nd.content_hash)]

\* A DO UPDATE SET that takes EXCLUDED.embedding as it is, NULL included.
UpdatedRow_no_coalesce(r, nd, t) ==
    [r EXCEPT !.title = nd.title,
              !.description = nd.description,
              !.url = nd.url,
              !.embedding = nd.embedding,
              !.metadata = nd.metadata,
              !.content_hash = Some(nd.content_hash),
              !.last_updated_at = t]

\* A DO UPDATE SET that leaves content_hash out.
UpdatedRow_keeps_hash(r, nd, t) ==
    [r EXCEPT !.title = nd.title,
              !.description = nd.description,
              !.url = nd.url,
              !.embedding = IF IsSome(nd.embedding) THEN nd.embedding ELSE @,
              !.metadata = nd.metadata,
              !.last_updated_at = t]

\* A DO UPDATE SET that writes first_seen_at as well.
UpdatedRow_resets_first_seen(r, nd, t) ==
    [r EXCEPT !.title = nd.title,
              !.description = nd.description,
              !.url = nd.url,
              !.embedding = IF IsSome(nd.embedding) THEN nd.embedding ELSE @,
              !.metadata = nd.metadata,
              !.content_hash = Some(nd.content_hash),
              !.first_seen_at = t,
              !.last_updated_at = t]

\* ON CONFLICT (source_portal, original_id) DO UPDATE SET ...
UpdatedRow(r, nd, t) ==
    [r EXCEPT !.title = nd.title,
              !.description = nd.description,
              !.url = nd.url,
              !.embedding = IF IsSome(nd.embedding) THEN nd.embedding ELSE @,
              !.metadata = nd.metadata,
              !.content_hash = Some(nd.content_hash),
              !.last_updated_at = t]

\* An INSERT without the ON CONFLICT clause on a table without the unique index.
Upsert_always_inserts(st, nd, t) == st \cup {InsertedRow(st, nd, t)}

\* A DELETE of the key's row followed by an INSERT.
Upsert_replaces_row(st, nd, t) ==
    (st \ RowsOf(st, nd.source_portal, nd.original_id)) \cup {InsertedRow(st, nd, t)}

\* DatasetRepository::upsert: the table after the statement, run at time t.
Upsert(st, nd, t) ==
    IF RowsOf(st, nd.source_portal, nd.original_id) = {}
    THEN st \cup {InsertedRow(st, nd, t)}
    ELSE {IF Key(r) = <<nd.source_portal, nd.original_id>> THEN UpdatedRow(r, nd, t) ELSE r
          : r \in st}

\* RETURNING id
UpsertReturns(st, nd, t) ==
    (CHOOSE r \in Upsert(st, nd, t) \ (st \ RowsOf(st, nd.source_portal, nd.original_id)) :
        Key(r) = <<nd.source_portal, nd.original_id>> /\ r.last_updated_at = t).id

\* DatasetRepository::get_hashes_for_portal: the HashMap collected from the rows.
GetHashesForPortal(st, portal_url) ==
    [o \in {r.original_id : r \in {x \in st : x.source_portal = portal_url}} |->
        (CHOOSE r \in st : r.source_portal = portal_url /\ r.original_id = o).content_hash]

\* HashMap::get
MapGet(m, k) == IF k \in DOMAIN m THEN Some(m[k]) ELSE None

\* An UPDATE that also clears the embedding.
UpdateTimestampOnly_clears_embedding(st, portal_url, original_id, t) ==
    {IF Key(r) = <<portal_url, original_id>>
     THEN [r EXCEPT !.last_updated_at = t, !.embedding = None] ELSE r : r \in st}

\* DatasetRepository::update_timestamp_only: the table after the statement.
UpdateTimestampOnly(st, portal_url, original_id, t) ==
    {IF Key(r) = <<portal_url, original_id>> THEN [r EXCEPT !.last_updated_at = t] ELSE r
     : r \in st}

\* result.rows_affected() > 0
UpdateTimestampOnlyReturns(st, portal_url, original_id) ==
    RowsOf(st, portal_url, original_id) # {}

\* ------------------------------------------------------------------ initial values

\* Rows an earlier release wrote, before the content_hash column existed
\* (hash NULL), with or without an embedding.
LegacyRow(emb) ==
    [id |-> 1,
     original_id |-> "A",
     source_portal |-> PortalA,
     url |-> PortalA \o <<"/dataset/">> \o <<"a-name">>,
     title |-> <<"T">>,
     description |-> None,
     embedding |-> emb,
     metadata |-> "org1",
     first_seen_at |-> 0,
     last_updated_at |-> 0,
     content_hash |-> None]

\* The row an earlier harvest of PortalA wrote for dataset "A" at revision 1.
HarvestedRow ==
    LET nd == IntoNewDataset(CkanDataset("A", 1), PortalA)
    IN InsertedRow({}, [nd EXCEPT !.embedding = Some(Embedding(CombinedText(nd)))], 0)

\* The table as a harvest may find it: empty, or holding the row of dataset "A".
InitStores == {{}, {LegacyRow(Some(Embedding(<<"T", " ">>)))}, {HarvestedRow}}

NoCall == [op |-> "none"]

\* HashMap::new()
EmptyMap == [o \in {} |-> None]

DecideIdle == existing_hash = None /\ new_hash = <<>> /\ decision = None
RepoIdle == store = {} /\ now = 0
DirectIdle == lastCall = NoCall /\ calls = 0
RetryIdle ==
    /\ attempt = 0 /\ last_error = None /\ responses = <<>> /\ delays = <<>>
    /\ retval = None
TallyIdle == outcomes = <<>>
HarvestIdle ==
    /\ portals = <<>>
    /\ catalog = 0
    /\ summary = <<>>
    /\ portal_i = 1
    /\ phase = "done"
    /\ existing_hashes = EmptyMap
    /\ tasks = <<>>
    /\ stats = NewStats
    /\ clean = TRUE
    /\ runlog = <<>>

\* ------------------------------------------------------------------ the decider alone

DigestAlphabet == {"T", "d", "|"}
Digests == UNION {[1..k -> DigestAlphabet] : k \in 0..MaxHashLen}

DecideInit ==
    /\ existing_hash \in {None, Some(None)} \cup {Some(Some(h)) : h \in Digests}
    /\ new_hash \in Digests
    /\ decision = None
    /\ RepoIdle /\ DirectIdle /\ HarvestIdle /\ RetryIdle /\ TallyIdle

\* let decision = needs_reprocessing(existing_hashes.get(..), &new_dataset.content_hash)
DecideCall ==
    /\ decision = None
    /\ decision' = Some(needs_reprocessing(existing_hash, new_hash))
    /\ UNCHANGED <<existing_hash, new_hash, repoVars, directVars, harvestVars, retryVars,
                   tallyVars>>

DecideNext == DecideCall

SpecDecide == DecideInit /\ [][DecideNext]_vars

\* ------------------------------------------------------------------ the repository alone

RepoPortals == {PortalA, PortalASlash}

\* new_dataset.embedding = Some(Vector::from(emb))
WithEmbedding(nd) == [nd EXCEPT !.embedding = Some(Embedding(CombinedText(nd)))]

\* The NewDataset values a caller can build: into_new_dataset of a catalog answer,
\* with or without an embedding attached.
NewDatasets ==
    LET plain == {IntoNewDataset(CkanDataset(o, rev), u) :
                    o \in OriginalIds, rev \in Revisions, u \in RepoPortals}
    IN plain \cup {WithEmbedding(nd) : nd \in plain}

RepoInit ==
    /\ store \in InitStores
    /\ now = 0
    /\ lastCall = NoCall
    /\ calls = 0
    /\ DecideIdle /\ HarvestIdle /\ RetryIdle /\ TallyIdle

\* What NOW() may read at the next statement: the clock as it stands, or a tick on.
ClockReadings == {t \in {now, now + 1} : t <= MaxClock}

\* repo.upsert(&nd) returns Ok(id)
RepoUpsert(nd, t) ==
    /\ calls < MaxCalls
    /\ now' = t
    /\ store' = Upsert(store, nd, t)
    /\ lastCall' = [op |-> "upsert", nd |-> nd, before |-> store, at |-> t,
                    ret |-> UpsertReturns(store, nd, t)]
    /\ calls' = calls + 1
    /\ UNCHANGED <<decideVars, harvestVars, retryVars, tallyVars>>

\* repo.update_timestamp_only(portal_url, original_id) returns Ok(matched)
RepoUpdateTimestampOnly(portal_url, original_id, t) ==
    /\ calls < MaxCalls
    /\ now' = t
    /\ store' = UpdateTimestampOnly(store, portal_url, original_id, t)
    /\ lastCall' = [op |-> "update_timestamp_only", portal_url |-> portal_url,
                    original_id |-> original_id, before |-> store, at |-> t,
                    ret |-> UpdateTimestampOnlyReturns(store, portal_url, original_id)]
    /\ calls' = calls + 1
    /\ UNCHANGED <<decideVars, harvestVars, retryVars, tallyVars>>

RepoNext ==
    \/ \E nd \in NewDatasets, t \in ClockReadings : RepoUpsert(nd, t)
    \/ \E u \in RepoPortals, o \in OriginalIds, t \in ClockReadings :
          RepoUpdateTimestampOnly(u, o, t)

SpecRepo == RepoInit /\ [][RepoNext]_vars

\* ------------------------------------------------------------------ batch_harvest, sync_portal

\* SyncConfig::default().concurrency
Concurrency == 10

\* The urls of the enabled portal entries.
PortalUrls == {PortalA, PortalBad}

\* The enabled lists batch_harvest is called with (handle_harvest returns before
\* the call when the list is empty).
PortalLists ==
    UNION {{[k \in 1..n |-> [name |-> k, url |-> f[k]]] : f \in [1..n -> PortalUrls]}
           : n \in 1..MaxPortals}

\* The answers of package_list: ids without repetition, in order.
Listings ==
    UNION {{l \in [1..n -> ListedIds] : \A j, k \in 1..n : j < k => Rank(l[j]) < Rank(l[k])}
           : n \in 0..MaxListed}

\* PortalHarvestResult::success
Success(portal, st) ==
    [portal_name |-> portal.name, portal_url |-> portal.url, stats |-> st, error |-> None]

\* A failure result that books the failed portal as one failed dataset.
Failure_counts_one_failed(portal, e) ==
    [portal_name |-> portal.name, portal_url |-> portal.url,
     stats |-> [unchanged |-> 0, updated |-> 0, created |-> 0, failed |-> 1],
     error |-> Some(e)]

\* PortalHarvestResult::failure
Failure(portal, e) ==
    [portal_name |-> portal.name, portal_url |-> portal.url, stats |-> NewStats,
     error |-> Some(e)]

\* The future stream::iter(ids).map(..) builds for one id, not yet polled.
NewTask(id) ==
    [id |-> id, pc |-> "pending", nd |-> None, decision |-> None,
     recorded |-> <<>>, trace |-> <<>>, result |-> "none"]

Called(call, ok) == [call |-> call, ok |-> ok]

InFlight == {k \in DOMAIN tasks : tasks[k].pc \notin {"pending", "done"}}
AllDone == \A k \in DOMAIN tasks : tasks[k].pc = "done"

Portal == portals[portal_i]

\* What the run log keeps of a sync_portal call that has returned: ts are its
\* record tasks, cl whether each of its catalog and store calls succeeded.
Run(returned, ts, cl) ==
    [url |-> Portal.url, returned |-> returned,
     ids |-> [k \in DOMAIN ts |-> ts[k].id], rev |-> catalog, clean |-> cl,
     processed |-> Cardinality({k \in DOMAIN ts : ts[k].trace # <<>>})]

HarvestInit ==
    /\ portals \in PortalLists
    /\ catalog \in Revisions
    /\ summary = <<>>
    /\ portal_i = 1
    /\ phase = "batch"
    /\ existing_hashes = EmptyMap
    /\ tasks = <<>>
    /\ stats = NewStats
    /\ clean = TRUE
    /\ runlog = <<>>
    /\ store \in InitStores
    /\ now = 0
    /\ DecideIdle /\ DirectIdle /\ RetryIdle /\ TallyIdle

\* A batch loop that gives up at the first portal that fails.
PortalFailed_aborts(e) ==
    /\ summary' = Append(summary, Failure(Portal, e))
    /\ runlog' = Append(runlog, Run("err", <<>>, FALSE))
    /\ phase' = "done"
    /\ UNCHANGED portal_i

\* batch_harvest, Err(e) arm: the failure is added and the loop goes on.
PortalFailed(e) ==
    /\ summary' = Append(summary, Failure(Portal, e))
    /\ runlog' = Append(runlog, Run("err", <<>>, FALSE))
    /\ portal_i' = portal_i + 1
    /\ phase' = "batch"

\* sync_portal: CkanClient::new(portal_url) fails, and `?` returns the error.
SyncPortalInvalidUrl ==
    /\ phase = "batch" /\ portal_i <= Len(portals)
    /\ ~UrlParses(Portal.url)
    /\ PortalFailed("Invalid CKAN portal URL")
    /\ UNCHANGED <<portals, catalog, existing_hashes, tasks, stats, clean,
                   repoVars, directVars, decideVars, retryVars, tallyVars>>

\* sync_portal: CkanClient::new succeeds and get_hashes_for_portal is awaited.
SyncPortalStart ==
    /\ phase = "batch" /\ portal_i <= Len(portals)
    /\ UrlParses(Portal.url)
    /\ phase' = "get_hashes_for_portal"
    /\ clean' = TRUE
    /\ UNCHANGED <<portals, catalog, summary, portal_i, existing_hashes, tasks, stats, runlog,
                   repoVars, directVars, decideVars, retryVars, tallyVars>>

\* repo.get_hashes_for_portal(portal_url) returns the snapshot.
GetHashesOk ==
    /\ phase = "get_hashes_for_portal"
    /\ existing_hashes' = GetHashesForPortal(store, Portal.url)
    /\ phase' = "list_package_ids"
    /\ UNCHANGED <<portals, catalog, summary, portal_i, tasks, stats, clean, runlog,
                   repoVars, directVars, decideVars, retryVars, tallyVars>>

\* repo.get_hashes_for_portal fails, and `?` returns the error.
GetHashesErr ==
    /\ phase = "get_hashes_for_portal"
    /\ PortalFailed("Database error")
    /\ UNCHANGED <<portals, catalog, existing_hashes, tasks, stats, clean,
                   repoVars, directVars, decideVars, retryVars, tallyVars>>

\* ckan.list_package_ids() returns ids; the accumulator and the stream of record
\* tasks are created.
ListOk(ids) ==
    /\ phase = "list_package_ids"
    /\ tasks' = [k \in 1..Len(ids) |-> NewTask(ids[k])]
    /\ stats' = NewStats
    /\ phase' = "fanout"
    /\ UNCHANGED <<portals, catalog, summary, portal_i, existing_hashes, clean, runlog,
                   repoVars, directVars, decideVars, retryVars, tallyVars>>

\* A sync_portal that takes a failed package_list for an empty one and goes on.
ListErr_lists_nothing ==
    /\ phase = "list_package_ids"
    /\ tasks' = <<>>
    /\ stats' = NewStats
    /\ clean' = FALSE
    /\ phase' = "fanout"
    /\ UNCHANGED <<portals, catalog, summary, portal_i, existing_hashes, runlog,
                   repoVars, directVars, decideVars, retryVars, tallyVars>>

\* ckan.list_package_ids() fails, and `?` returns the error.
ListErr ==
    /\ phase = "list_package_ids"
    /\ PortalFailed("CKAN API error")
    /\ UNCHANGED <<portals, catalog, existing_hashes, tasks, stats, clean,
                   repoVars, directVars, decideVars, retryVars, tallyVars>>

\* A sync_portal that hands its statistics back while record tasks still run.
SyncPortalReturn_without_waiting ==
    /\ phase = "fanout"
    /\ summary' = Append(summary, Success(Portal, stats))
    /\ runlog' = Append(runlog, Run("ok", tasks, clean))
    /\ portal_i' = portal_i + 1
    /\ phase' = "batch"
    /\ UNCHANGED <<portals, catalog, existing_hashes, tasks, stats, clean,
                   repoVars, directVars, decideVars, retryVars, tallyVars>>

\* .collect().await has every record task's output: sync_portal returns
\* Ok(stats.to_stats()), and batch_harvest adds the success.
SyncPortalReturn ==
    /\ phase = "fanout"
    /\ AllDone
    /\ summary' = Append(summary, Success(Portal, stats))
    /\ runlog' = Append(runlog, Run("ok", tasks, clean))
    /\ portal_i' = portal_i + 1
    /\ phase' = "batch"
    /\ tasks' = <<>>
    /\ UNCHANGED <<portals, catalog, existing_hashes, stats, clean,
                   repoVars, directVars, decideVars, retryVars, tallyVars>>

\* The portal list is exhausted: batch_harvest returns the summary.
BatchReturn ==
    /\ phase = "batch" /\ portal_i > Len(portals)
    /\ phase' = "done"
    /\ UNCHANGED <<portals, catalog, summary, portal_i, existing_hashes, tasks, stats, clean,
                   runlog, repoVars, directVars, decideVars, retryVars, tallyVars>>

\* ------------------------------------------------------------------ the record task

batchFrame == <<portals, catalog, summary, portal_i, phase, existing_hashes, runlog>>

\* A fan-out that polls every future of the stream at once (join_all).
TaskStart_unbounded(k) ==
    /\ phase = "fanout" /\ k \in DOMAIN tasks
    /\ tasks[k].pc = "pending"
    /\ \A j \in 1..(k - 1) : tasks[j].pc # "pending"
    /\ tasks' = [tasks EXCEPT ![k].pc = "show_package"]
    /\ UNCHANGED <<portals, catalog, summary, portal_i, phase, existing_hashes, runlog,
                   stats, clean, repoVars, directVars, decideVars, retryVars, tallyVars>>

\* buffer_unordered polls the next future of the stream: ids are taken in order,
\* and no more than Concurrency futures are held at once.
TaskStart(k) ==
    /\ phase = "fanout" /\ k \in DOMAIN tasks
    /\ tasks[k].pc = "pending"
    /\ \A j \in 1..(k - 1) : tasks[j].pc # "pending"
    /\ Cardinality(InFlight) < Concurrency
    /\ tasks' = [tasks EXCEPT ![k].pc = "show_package"]
    /\ UNCHANGED <<batchFrame, stats, clean, repoVars, directVars, decideVars, retryVars, tallyVars>>

\* A record task whose show_package error ends the whole stream (try_collect).
ShowPackageErr_aborts_sync(k) ==
    /\ phase = "fanout" /\ k \in DOMAIN tasks
    /\ tasks[k].pc = "show_package"
    /\ stats' = Record(stats, "Failed")
    /\ tasks' = [tasks EXCEPT ![k].pc = "done", ![k].result = "err",
                              ![k].recorded = Append(@, "Failed"),
                              ![k].trace = Append(@, Called("show_package", FALSE))]
    /\ clean' = FALSE
    /\ summary' = Append(summary, Failure(Portal, "CKAN API error"))
    /\ runlog' = Append(runlog, Run("err", tasks', FALSE))
    /\ portal_i' = portal_i + 1
    /\ phase' = "batch"
    /\ UNCHANGED <<portals, catalog, existing_hashes, repoVars, directVars, decideVars, retryVars, tallyVars>>

\* ckan.show_package(&id) fails: Failed is recorded and the task returns Err(e).
ShowPackageErr(k) ==
    /\ phase = "fanout" /\ k \in DOMAIN tasks
    /\ tasks[k].pc = "show_package"
    /\ stats' = Record(stats, "Failed")
    /\ tasks' = [tasks EXCEPT ![k].pc = "done", ![k].result = "err",
                              ![k].recorded = Append(@, "Failed"),
                              ![k].trace = Append(@, Called("show_package", FALSE))]
    /\ clean' = FALSE
    /\ UNCHANGED <<batchFrame, repoVars, directVars, decideVars, retryVars, tallyVars>>

\* The test without the trim: the text always holds its separator.
HasText_untrimmed(nd) == CombinedText(nd) # <<>>

\* combined_text.trim().is_empty() is false
HasText(nd) == Trim(CombinedText(nd)) # <<>>

\* A task that asks for an embedding whatever the decision.
AfterDecision_always_embeds(d, nd) ==
    IF HasText(nd) THEN "get_embeddings"
    ELSE IF d.outcome = "Unchanged" THEN "update_timestamp_only"
    ELSE "upsert"

\* A task that goes on to the upsert in the Unchanged arm as well.
AfterDecision_unchanged_upserts(d, nd) ==
    IF d.needs_embedding /\ HasText(nd) THEN "get_embeddings" ELSE "upsert"

\* Where the task awaits next once the decision is taken: the Unchanged arm calls
\* update_timestamp_only; otherwise get_embeddings when an embedding is needed and
\* the combined text is not blank; otherwise upsert.
AfterDecision(d, nd) ==
    IF d.outcome = "Unchanged" THEN "update_timestamp_only"
    ELSE IF d.needs_embedding /\ HasText(nd) THEN "get_embeddings"
    ELSE "upsert"

\* A record task that looks its record up in the table as it stands.
ShowPackageOk_reads_store(k) ==
    /\ phase = "fanout" /\ k \in DOMAIN tasks
    /\ tasks[k].pc = "show_package"
    /\ LET nd == IntoNewDataset(CkanDataset(Resolve(tasks[k].id), catalog), Portal.url)
           d == needs_reprocessing(MapGet(GetHashesForPortal(store, Portal.url),
                                          nd.original_id), nd.content_hash)
           unchanged == d.outcome = "Unchanged"
       IN /\ tasks' = [tasks EXCEPT
                ![k].pc = AfterDecision(d, nd),
                ![k].nd = Some(nd),
                ![k].decision = Some(d),
                ![k].recorded = IF unchanged THEN Append(@, "Unchanged") ELSE @,
                ![k].trace = Append(@, Called("show_package", TRUE))]
          /\ stats' = IF unchanged THEN Record(stats, "Unchanged") ELSE stats
    /\ UNCHANGED <<batchFrame, clean, repoVars, directVars, decideVars, retryVars, tallyVars>>

\* ckan.show_package(&id) returns the dataset: into_new_dataset, the decision
\* against the snapshot, and (Unchanged arm) stats.record(Unchanged).
ShowPackageOk(k) ==
    /\ phase = "fanout" /\ k \in DOMAIN tasks
    /\ tasks[k].pc = "show_package"
    /\ LET nd == IntoNewDataset(CkanDataset(Resolve(tasks[k].id), catalog), Portal.url)
           d == needs_reprocessing(MapGet(existing_hashes, nd.original_id), nd.content_hash)
           unchanged == d.outcome = "Unchanged"
       IN /\ tasks' = [tasks EXCEPT
                ![k].pc = AfterDecision(d, nd),
                ![k].nd = Some(nd),
                ![k].decision = Some(d),
                ![k].recorded = IF unchanged THEN Append(@, "Unchanged") ELSE @,
                ![k].trace = Append(@, Called("show_package", TRUE))]
          /\ stats' = IF unchanged THEN Record(stats, "Unchanged") ELSE stats
    /\ UNCHANGED <<batchFrame, clean, repoVars, directVars, decideVars, retryVars, tallyVars>>

\* gemini.get_embeddings(&combined_text) returns the vector: it is attached and
\* the decided outcome is recorded.
GetEmbeddingsOk(k) ==
    /\ phase = "fanout" /\ k \in DOMAIN tasks
    /\ tasks[k].pc = "get_embeddings"
    /\ LET outcome == Unwrap(tasks[k].decision).outcome
       IN /\ tasks' = [tasks EXCEPT
                ![k].pc = "upsert",
                ![k].nd = Some(WithEmbedding(Unwrap(@))),
                ![k].recorded = Append(@, outcome),
                ![k].trace = Append(@, Called("get_embeddings", TRUE))]
          /\ stats' = Record(stats, outcome)
    /\ UNCHANGED <<batchFrame, clean, repoVars, directVars, decideVars, retryVars, tallyVars>>

\* An Err arm that counts the record under its decided outcome all the same.
GetEmbeddingsErr_records_outcome(k) ==
    /\ phase = "fanout" /\ k \in DOMAIN tasks
    /\ tasks[k].pc = "get_embeddings"
    /\ LET outcome == Unwrap(tasks[k].decision).outcome
       IN /\ tasks' = [tasks EXCEPT
                ![k].pc = "upsert",
                ![k].recorded = Append(@, outcome),
                ![k].trace = Append(@, Called("get_embeddings", FALSE))]
          /\ stats' = Record(stats, outcome)
    /\ UNCHANGED <<batchFrame, clean, repoVars, directVars, decideVars, retryVars, tallyVars>>

\* gemini.get_embeddings fails: Failed is recorded and the task goes on to upsert
\* the record without an embedding.
GetEmbeddingsErr(k) ==
    /\ phase = "fanout" /\ k \in DOMAIN tasks
    /\ tasks[k].pc = "get_embeddings"
    /\ tasks' = [tasks EXCEPT
            ![k].pc = "upsert",
            ![k].recorded = Append(@, "Failed"),
            ![k].trace = Append(@, Called("get_embeddings", FALSE))]
    /\ stats' = Record(stats, "Failed")
    /\ UNCHANGED <<batchFrame, clean, repoVars, directVars, decideVars, retryVars, tallyVars>>

\* repo.upsert(&new_dataset) returns Ok(uuid): the task returns Ok(()).
UpsertOk(k, t) ==
    /\ phase = "fanout" /\ k \in DOMAIN tasks
    /\ tasks[k].pc = "upsert"
    /\ store' = Upsert(store, Unwrap(tasks[k].nd), t)
    /\ now' = t
    /\ tasks' = [tasks EXCEPT ![k].pc = "done", ![k].result = "ok",
                              ![k].trace = Append(@, Called("upsert", TRUE))]
    /\ UNCHANGED <<batchFrame, stats, clean, directVars, decideVars, retryVars, tallyVars>>

\* repo.upsert fails: Failed is recorded and the task returns Err(e).
UpsertErr(k) ==
    /\ phase = "fanout" /\ k \in DOMAIN tasks
    /\ tasks[k].pc = "upsert"
    /\ stats' = Record(stats, "Failed")
    /\ tasks' = [tasks EXCEPT ![k].pc = "done", ![k].result = "err",
                              ![k].recorded = Append(@, "Failed"),
                              ![k].trace = Append(@, Called("upsert", FALSE))]
    /\ clean' = FALSE
    /\ UNCHANGED <<batchFrame, repoVars, directVars, decideVars, retryVars, tallyVars>>

\* repo.update_timestamp_only returns Ok(_): the task returns Ok(()).
UpdateTimestampOnlyOk(k, t) ==
    /\ phase = "fanout" /\ k \in DOMAIN tasks
    /\ tasks[k].pc = "update_timestamp_only"
    /\ store' = UpdateTimestampOnly(store, Portal.url, Unwrap(tasks[k].nd).original_id, t)
    /\ now' = t
    /\ tasks' = [tasks EXCEPT ![k].pc = "done", ![k].result = "ok",
                              ![k].trace = Append(@, Called("update_timestamp_only", TRUE))]
    /\ UNCHANGED <<batchFrame, stats, clean, directVars, decideVars, retryVars, tallyVars>>

\* An Unchanged arm that treats a failed timestamp update like a failed upsert.
UpdateTimestampOnlyErr_reclassifies(k) ==
    /\ phase = "fanout" /\ k \in DOMAIN tasks
    /\ tasks[k].pc = "update_timestamp_only"
    /\ stats' = Record(stats, "Failed")
    /\ tasks' = [tasks EXCEPT ![k].pc = "done", ![k].result = "err",
                              ![k].recorded = Append(@, "Failed"),
                              ![k].trace = Append(@, Called("update_timestamp_only", FALSE))]
    /\ clean' = FALSE
    /\ UNCHANGED <<batchFrame, repoVars, directVars, decideVars, retryVars, tallyVars>>

\* repo.update_timestamp_only fails: the error is logged and the task returns Ok(()).
UpdateTimestampOnlyErr(k) ==
    /\ phase = "fanout" /\ k \in DOMAIN tasks
    /\ tasks[k].pc = "update_timestamp_only"
    /\ tasks' = [tasks EXCEPT ![k].pc = "done", ![k].result = "ok",
                              ![k].trace = Append(@, Called("update_timestamp_only", FALSE))]
    /\ clean' = FALSE
    /\ UNCHANGED <<batchFrame, stats, repoVars, directVars, decideVars, retryVars, tallyVars>>

\* Positions a record task can have in the stream.
Positions == 1..MaxListed

Next ==
    \/ SyncPortalInvalidUrl
    \/ SyncPortalStart
    \/ GetHashesOk
    \/ GetHashesErr
    \/ \E ids \in Listings : ListOk(ids)
    \/ ListErr
    \/ \E k \in Positions : TaskStart(k)
    \/ \E k \in Positions : ShowPackageOk(k)
    \/ \E k \in Positions : ShowPackageErr(k)
    \/ \E k \in Positions : GetEmbeddingsOk(k)
    \/ \E k \in Positions : GetEmbeddingsErr(k)
    \/ \E k \in Positions, t \in ClockReadings : UpsertOk(k, t)
    \/ \E k \in Positions : UpsertErr(k)
    \/ \E k \in Positions, t \in ClockReadings : UpdateTimestampOnlyOk(k, t)
    \/ \E k \in Positions : UpdateTimestampOnlyErr(k)
    \/ SyncPortalReturn
    \/ BatchReturn

Init == HarvestInit

Spec == Init /\ [][Next]_vars

\* Every awaited call returns and the executor keeps polling: a step that can
\* be taken is taken.
SpecFair == Init /\ [][Next]_vars /\ WF_vars(Next)

\* ------------------------------------------------------------------ a long listing

\* sync_portal at its fan-out over a listing longer than the fan-out is wide, on
\* a portal whose package_show is down: every record task ends at its first await.
MaxFanout == 12

FanoutIds(n) == [k \in 1..n |-> ToString(k)]

FanoutInit ==
    /\ portals = <<[name |-> 1, url |-> PortalA]>>
    /\ catalog = 1
    /\ summary = <<>>
    /\ portal_i = 1
    /\ phase = "fanout"
    /\ existing_hashes = EmptyMap
    /\ \E n \in 0..MaxFanout : tasks = [k \in 1..n |-> NewTask(FanoutIds(n)[k])]
    /\ stats = NewStats
    /\ clean = TRUE
    /\ runlog = <<>>
    /\ RepoIdle /\ DecideIdle /\ DirectIdle /\ RetryIdle /\ TallyIdle

FanoutNext ==
    \/ \E k \in 1..MaxFanout : TaskStart(k)
    \/ \E k \in 1..MaxFanout : ShowPackageErr(k)
    \/ SyncPortalReturn
    \/ BatchReturn

SpecFanout == FanoutInit /\ [][FanoutNext]_vars

\* ------------------------------------------------------------------ a row deleted under the snapshot

\* sync_portal at its fan-out on PortalA, the snapshot holding the hash of
\* dataset "A" as harvested at revision 1.  The table still holds that row, or
\* another client of the database has deleted it since the snapshot was read.
VanishedInit ==
    /\ portals = <<[name |-> 1, url |-> PortalA]>>
    /\ catalog \in Revisions
    /\ summary = <<>>
    /\ portal_i = 1
    /\ phase = "fanout"
    /\ existing_hashes = GetHashesForPortal({HarvestedRow}, PortalA)
    /\ \E ids \in Listings : tasks = [k \in 1..Len(ids) |-> NewTask(ids[k])]
    /\ stats = NewStats
    /\ clean = TRUE
    /\ runlog = <<>>
    /\ store \in {{HarvestedRow}, {}}
    /\ now = 0
    /\ DecideIdle /\ DirectIdle /\ RetryIdle /\ TallyIdle

VanishedNext ==
    \/ \E k \in Positions : TaskStart(k)
    \/ \E k \in Positions : ShowPackageOk(k)
    \/ \E k \in Positions : ShowPackageErr(k)
    \/ \E k \in Positions : GetEmbeddingsOk(k)
    \/ \E k \in Positions : GetEmbeddingsErr(k)
    \/ \E k \in Positions, t \in ClockReadings : UpsertOk(k, t)
    \/ \E k \in Positions : UpsertErr(k)
    \/ \E k \in Positions, t \in ClockReadings : UpdateTimestampOnlyOk(k, t)
    \/ \E k \in Positions : UpdateTimestampOnlyErr(k)
    \/ SyncPortalReturn
    \/ BatchReturn

SpecVanished == VanishedInit /\ [][VanishedNext]_vars

\* ------------------------------------------------------------------ search

\* Embedding vectors by their direction in the plane, in eighths of a turn; the
\* cosine of an angle of d eighths, in thousandths.
Vectors == {0, 1, 4, 7}
Cos1000(d) ==
    CASE d = 0 -> 1000 [] d = 1 -> 707 [] d = 2 -> 0 [] d = 3 -> -707
      [] d = 4 -> -1000 [] d = 5 -> -707 [] d = 6 -> 0 [] d = 7 -> 707

\* pgvector's `a <=> b`: the cosine distance, 1 - cos(a, b), in thousandths
CosineDistance(a, b) == 1000 - Cos1000((a - b) % 8)

\* `as f32`: the nearest value of the coarser grid, here hundredths
AsF32(x) == ((x + 5) \div 10) * 10

\* WHERE embedding IS NOT NULL
WithEmbeddingRows(st) == {r \in st : IsSome(r.embedding)}

\* An ORDER BY that sorts the farthest first.
OrderedByDistance_desc(rows, q) ==
    LET n == Cardinality(rows)
    IN {s \in [1..n -> rows] :
           /\ \A i, j \in 1..n : i # j => s[i] # s[j]
           /\ \A i, j \in 1..n : i < j =>
                 CosineDistance(Unwrap(s[i].embedding), q)
                    >= CosineDistance(Unwrap(s[j].embedding), q)}

\* ORDER BY embedding <=> $1: the rows in an order of non-decreasing distance;
\* rows at the same distance come in an order the database chooses.
OrderedByDistance(rows, q) ==
    LET n == Cardinality(rows)
    IN {s \in [1..n -> rows] :
           /\ \A i, j \in 1..n : i # j => s[i] # s[j]
           /\ \A i, j \in 1..n : i < j =>
                 CosineDistance(Unwrap(s[i].embedding), q)
                    <= CosineDistance(Unwrap(s[j].embedding), q)}

\* LIMIT $2
Limit(s, k) == SubSeq(s, 1, IF k < Len(s) THEN k ELSE Len(s))

\* SearchResult { dataset, similarity_score: row.similarity_score as f32 }, with
\* similarity_score selected as 1 - (embedding <=> $1)
SearchResult(r, q) ==
    [dataset |-> r,
     similarity_score |-> AsF32(1000 - CosineDistance(Unwrap(r.embedding), q))]

\* DatasetRepository::search: the sequences it may return.
Search(st, q, k) ==
    {[j \in DOMAIN Limit(s, k) |-> SearchResult(Limit(s, k)[j], q)] :
        s \in OrderedByDistance(WithEmbeddingRows(st), q)}

MaxLimit == 3

SearchIds == {"A", "B", "C"}

\* Datasets saved before a search: with an embedding or without.
SearchDatasets ==
    LET nd == IntoNewDataset(CkanDataset("B", 1), PortalA)
    IN {[nd EXCEPT !.original_id = o, !.embedding = e] :
           o \in SearchIds, e \in {None} \cup {Some(v) : v \in Vectors}}

SearchInit ==
    /\ store = {} /\ now = 0
    /\ lastCall = NoCall /\ calls = 0
    /\ DecideIdle /\ HarvestIdle /\ RetryIdle /\ TallyIdle

\* repo.upsert(&nd) returns Ok(id)
SearchUpsert(nd) ==
    /\ store' = Upsert(store, nd, now)
    /\ lastCall' = [op |-> "upsert", nd |-> nd, before |-> store, at |-> now,
                    ret |-> UpsertReturns(store, nd, now)]
    /\ UNCHANGED <<now, calls, decideVars, harvestVars, retryVars, tallyVars>>

\* repo.search(query_vector, limit) returns Ok(results)
RepoSearch(q, k) ==
    /\ \E res \in Search(store, q, k) :
          lastCall' = [op |-> "search", query_vector |-> q, limit |-> k, ret |-> res]
    /\ UNCHANGED <<store, now, calls, decideVars, harvestVars, retryVars, tallyVars>>

SearchNext ==
    \/ \E nd \in SearchDatasets : SearchUpsert(nd)
    \/ \E q \in Vectors, k \in 0..MaxLimit : RepoSearch(q, k)

SpecSearch == SearchInit /\ [][SearchNext]_vars

\* ------------------------------------------------------------------ SyncStats

\* A record that takes a failure for a created dataset.
SyncStatsRecord_failed_as_created(s, outcome) ==
    CASE outcome = "Unchanged" -> [s EXCEPT !.unchanged = @ + 1]
      [] outcome = "Updated" -> [s EXCEPT !.updated = @ + 1]
      [] outcome \in {"Created", "Failed"} -> [s EXCEPT !.created = @ + 1]

\* SyncStats::record
SyncStatsRecord(s, outcome) ==
    CASE outcome = "Unchanged" -> [s EXCEPT !.unchanged = @ + 1]
      [] outcome = "Updated" -> [s EXCEPT !.updated = @ + 1]
      [] outcome = "Created" -> [s EXCEPT !.created = @ + 1]
      [] outcome = "Failed" -> [s EXCEPT !.failed = @ + 1]

\* SyncStats::successful
Successful(s) == s.unchanged + s.updated + s.created

MaxRecords == 4

\* SyncStats::new()
TallyInit ==
    /\ outcomes = <<>>
    /\ HarvestIdle
    /\ DecideIdle /\ RepoIdle /\ DirectIdle /\ RetryIdle

\* stats.record(outcome)
TallyRecord(outcome) ==
    /\ Len(outcomes) < MaxRecords
    /\ stats' = SyncStatsRecord(stats, outcome)
    /\ outcomes' = Append(outcomes, outcome)
    /\ UNCHANGED <<portals, catalog, summary, portal_i, phase, existing_hashes, tasks, clean,
                   runlog, decideVars, repoVars, directVars, retryVars>>

TallyNext == \E outcome \in SyncOutcomes : TallyRecord(outcome)

SpecTally == TallyInit /\ [][TallyNext]_vars

\* ------------------------------------------------------------------ BatchHarvestSummary

\* PortalHarvestResult::is_success
ResultIsSuccess(r) == r.error = None

\* results.iter().filter(|r| r.is_success()).count()
RECURSIVE SuccessfulCount(_)
SuccessfulCount(results) ==
    IF results = <<>> THEN 0
    ELSE (IF ResultIsSuccess(Head(results)) THEN 1 ELSE 0) + SuccessfulCount(Tail(results))

\* results.iter().filter(|r| !r.is_success()).count()
RECURSIVE FailedCount(_)
FailedCount(results) ==
    IF results = <<>> THEN 0
    ELSE (IF ~ResultIsSuccess(Head(results)) THEN 1 ELSE 0) + FailedCount(Tail(results))

\* results.iter().map(|r| r.stats.total()).sum()
RECURSIVE TotalDatasets(_)
TotalDatasets(results) ==
    IF results = <<>> THEN 0
    ELSE Total(Head(results).stats) + TotalDatasets(Tail(results))

\* results.len()
TotalPortals(results) == Len(results)

MaxResults == 3

\* The results batch_harvest may add: successes with the statistics of a sync,
\* failures with a message.
SomeStats ==
    {NewStats,
     [unchanged |-> 1, updated |-> 0, created |-> 1, failed |-> 0],
     [unchanged |-> 0, updated |-> 2, created |-> 0, failed |-> 1]}
SomePortals == {[name |-> 1, url |-> PortalA], [name |-> 2, url |-> PortalBad]}
HarvestResults ==
    {Success(p, st) : p \in SomePortals, st \in SomeStats}
    \cup {Failure(p, "CKAN API error") : p \in SomePortals}

\* BatchHarvestSummary::new()
SummaryInit ==
    /\ HarvestIdle
    /\ DecideIdle /\ RepoIdle /\ DirectIdle /\ RetryIdle /\ TallyIdle

\* summary.add(result)
SummaryAdd(result) ==
    /\ Len(summary) < MaxResults
    /\ summary' = Append(summary, result)
    /\ calls' = calls + 1
    /\ UNCHANGED <<portals, catalog, portal_i, phase, existing_hashes, tasks, stats, clean,
                   runlog, lastCall, decideVars, repoVars, retryVars, tallyVars>>

SummaryNext == \E result \in HarvestResults : SummaryAdd(result)

SpecSummary == SummaryInit /\ [][SummaryNext]_vars

\* ------------------------------------------------------------------ request_with_retry

MAX_RETRIES == 3
RETRY_BASE_DELAY_MS == 500
TOO_MANY_REQUESTS == 429

\* AppError values
Generic(msg) == [type |-> "Generic", msg |-> msg]
ClientError(msg) == [type |-> "ClientError", msg |-> msg]
RateLimitExceeded == [type |-> "RateLimitExceeded", msg |-> <<>>]
Timeout(secs) == [type |-> "Timeout", msg |-> <<ToString(secs)>>]
NetworkError(msg) == [type |-> "NetworkError", msg |-> msg]

\* Result values
Ok(x) == [ok |-> TRUE, val |-> x]
Err(e) == [ok |-> FALSE, val |-> e]

\* The url requested.
Url == "url"

\* What self.client.get(url).send().await can give: a response with a status, or
\* a transport error that is a timeout, a connect failure, or neither.
Statuses == {200, 204, 302, 400, 404, 429, 500, 503}
Answers ==
    {[kind |-> "status", status |-> c] : c \in Statuses}
    \cup {[kind |-> k, status |-> 0] : k \in {"timeout", "connect", "other"}}

\* StatusCode::is_success, StatusCode::is_server_error
IsSuccess(status) == 200 <= status /\ status <= 299
IsServerError(status) == 500 <= status /\ status <= 599

\* 2_u64.pow(attempt)
RECURSIVE Pow2(_)
Pow2(n) == IF n = 0 THEN 1 ELSE 2 * Pow2(n - 1)

\* What one pass of the loop body decides: the new last_error, the duration slept
\* (if any), and the value returned (if any; none means the loop goes on).
Pass(le, slept, ret) == [last_error |-> le, slept |-> slept, ret |-> ret]

\* An Ok(resp) arm that gives up at the first answer that is not a success.
OnResponse_no_retry(att, le, resp) ==
    IF IsSuccess(resp.status) THEN Pass(le, None, Some(Ok(resp)))
    ELSE Pass(le, None,
              Some(Err(ClientError(<<"HTTP ", ToString(resp.status), " from ", Url>>))))

\* An Ok(resp) arm that retries whatever is not a success.
OnResponse_retries_any(att, le, resp) ==
    IF IsSuccess(resp.status) THEN Pass(le, None, Some(Ok(resp)))
    ELSE IF att < MAX_RETRIES
    THEN Pass(le, Some(RETRY_BASE_DELAY_MS * att), None)
    ELSE Pass(le, None,
              Some(Err(ClientError(<<"HTTP ", ToString(resp.status), " from ", Url>>))))

\* The Ok(resp) arm.
OnResponse(att, le, resp) ==
    LET status == resp.status
        le1 == IF status = TOO_MANY_REQUESTS THEN RateLimitExceeded ELSE le
        le2 == IF IsServerError(status)
               THEN ClientError(<<"Server error: HTTP ", ToString(status)>>)
               ELSE le1
    IN IF IsSuccess(status) THEN Pass(le, None, Some(Ok(resp)))
       ELSE IF status = TOO_MANY_REQUESTS /\ att < MAX_RETRIES
       THEN Pass(le1, Some(RETRY_BASE_DELAY_MS * Pow2(att)), None)
       ELSE IF IsServerError(status) /\ att < MAX_RETRIES
       THEN Pass(le2, Some(RETRY_BASE_DELAY_MS * att), None)
       ELSE Pass(le2, None,
                 Some(Err(ClientError(<<"HTTP ", ToString(status), " from ", Url>>))))

\* An Err(e) arm that returns the transport error of the first attempt.
OnTransportError_gives_up(att, le, e) ==
    Pass(ClientError(<<e.kind>>), None, Some(Err(ClientError(<<e.kind>>))))

\* The Err(e) arm: it sets last_error, sleeps before a retry of a timeout or a
\* connect failure, and returns nothing.
OnTransportError(att, le, e) ==
    LET le1 == IF e.kind = "timeout" THEN Timeout(30)
               ELSE IF e.kind = "connect" THEN NetworkError(<<"Connection failed: ", e.kind>>)
               ELSE ClientError(<<e.kind>>)
    IN IF att < MAX_RETRIES /\ e.kind \in {"timeout", "connect"}
       THEN Pass(le1, Some(RETRY_BASE_DELAY_MS * att), None)
       ELSE Pass(le1, None, None)

\* A loop over 0..=MAX_RETRIES, entered at 1: one pass too many.
InLoop_one_more(att) == att \in 1..(MAX_RETRIES + 1)

\* for attempt in 1..=MAX_RETRIES
InLoop(att) == att \in 1..MAX_RETRIES

\* request_with_retry is entered.
RetryInit ==
    /\ attempt = 1
    /\ last_error = Generic(<<"No attempts made">>)
    /\ responses = <<>>
    /\ delays = <<>>
    /\ retval = None
    /\ DecideIdle /\ RepoIdle /\ DirectIdle /\ HarvestIdle /\ TallyIdle

\* One request is sent and answered by a, and the loop body runs on the answer.
\* When the body returns nothing after the last pass the loop ends and
\* Err(last_error) is returned.
Request(a, pass) ==
    /\ InLoop(attempt) /\ retval = None
    /\ responses' = Append(responses, a)
    /\ last_error' = pass.last_error
    /\ delays' = IF IsSome(pass.slept) THEN Append(delays, Unwrap(pass.slept)) ELSE delays
    /\ retval' = IF IsSome(pass.ret) THEN pass.ret
                 ELSE IF InLoop(attempt + 1) THEN None
                 ELSE Some(Err(pass.last_error))
    /\ attempt' = IF IsSome(pass.ret) \/ ~InLoop(attempt + 1) THEN attempt ELSE attempt + 1
    /\ UNCHANGED <<decideVars, repoVars, directVars, harvestVars, tallyVars>>

\* send() gives Ok(resp)
ReceiveResponse(a) ==
    /\ a.kind = "status"
    /\ Request(a, OnResponse(attempt, last_error, a))

\* send() gives Err(e)
ReceiveError(a) ==
    /\ a.kind # "status"
    /\ Request(a, OnTransportError(attempt, last_error, a))

RetryNext ==
    \/ \E a \in Answers : ReceiveResponse(a)
    \/ \E a \in Answers : ReceiveError(a)

SpecRetry == RetryInit /\ [][RetryNext]_vars

\* ------------------------------------------------------------------ classify_gemini_error

\* GeminiErrorKind
Authentication == "Authentication"
RateLimit == "RateLimit"
QuotaExceeded == "QuotaExceeded"
ServerError == "ServerError"
GeminiNetworkError == "NetworkError"
Unknown == "Unknown"
GeminiErrorKind ==
    {Authentication, RateLimit, QuotaExceeded, ServerError, GeminiNetworkError, Unknown}

\* The string literals of classify_gemini_error, as character sequences.
S_insufficient_quota ==
    <<"i","n","s","u","f","f","i","c","i","e","n","t","_","q","u","o","t","a">>
S_quota == <<"q","u","o","t","a">>
S_rate == <<"r","a","t","e">>
S_API_key == <<"A","P","I"," ","k","e","y">>
S_Unauthorized == <<"U","n","a","u","t","h","o","r","i","z","e","d">>

\* str::contains(pat): pat occurs in s as a contiguous run of characters.
Contains(s, pat) ==
    \E i \in 1..(Len(s) - Len(pat) + 1) : SubSeq(s, i, i + Len(pat) - 1) = pat

\* Pieces of the messages the service may send; "Generate" holds "rate", "Rate"
\* does not, "API" followed by " key" gives "API key".
Fragments ==
    {S_quota, S_rate, S_API_key, S_Unauthorized, S_insufficient_quota,
     <<"G","e","n","e","r","a","t","e">>, <<"R","a","t","e">>, <<"Q","u","o","t","a">>,
     <<"A","P","I">>, <<" ","k","e","y">>, <<" ">>}

MaxFragments == 2

RECURSIVE MessagesOf(_)
MessagesOf(n) ==
    IF n = 0 THEN {<<>>}
    ELSE LET shorter == MessagesOf(n - 1)
         IN shorter \cup {m \o f : m \in shorter, f \in Fragments}

Messages == MessagesOf(MaxFragments)

\* status_code: u16, sampled around the arms of the match.
StatusCodes == {0, 200, 400, 401, 403, 429, 499, 500, 503, 599, 600}

\* classify_gemini_error without the 500..=599 arm.
classify_gemini_error_by_message_on_5xx(status_code, message) ==
    CASE status_code = 401 -> Authentication
      [] status_code = 429 ->
            IF Contains(message, S_insufficient_quota) \/ Contains(message, S_quota)
            THEN QuotaExceeded
            ELSE RateLimit
      [] OTHER ->
            IF Contains(message, S_API_key) \/ Contains(message, S_Unauthorized)
            THEN Authentication
            ELSE IF Contains(message, S_rate) THEN RateLimit
            ELSE IF Contains(message, S_quota) THEN QuotaExceeded
            ELSE Unknown

\* classify_gemini_error
classify_gemini_error(status_code, message) ==
    CASE status_code = 401 -> Authentication
      [] status_code = 429 ->
            IF Contains(message, S_insufficient_quota) \/ Contains(message, S_quota)
            THEN QuotaExceeded
            ELSE RateLimit
      [] status_code \in 500..599 -> ServerError
      [] OTHER ->
            IF Contains(message, S_API_key) \/ Contains(message, S_Unauthorized)
            THEN Authentication
            ELSE IF Contains(message, S_rate) THEN RateLimit
            ELSE IF Contains(message, S_quota) THEN QuotaExceeded
            ELSE Unknown

ClassifyInit ==
    /\ DirectIdle
    /\ DecideIdle /\ RepoIdle /\ HarvestIdle /\ RetryIdle /\ TallyIdle

\* let kind = classify_gemini_error(status_code, &message);
ClassifyCall(status_code, message) ==
    /\ lastCall = NoCall
    /\ lastCall' = [op |-> "classify_gemini_error", status_code |-> status_code,
                    message |-> message,
                    ret |-> classify_gemini_error(status_code, message)]
    /\ UNCHANGED <<calls, harvestVars, decideVars, repoVars, retryVars, tallyVars>>

ClassifyNext == \E status_code \in StatusCodes, message \in Messages :
                    ClassifyCall(status_code, message)

SpecClassify == ClassifyInit /\ [][ClassifyNext]_vars

\* ------------------------------------------------------------------ AppError

\* The variants of AppError that request_with_retry does not build.
DatabaseError(msg) == [type |-> "DatabaseError", msg |-> msg]
SerializationError(msg) == [type |-> "SerializationError", msg |-> msg]
InvalidUrl(msg) == [type |-> "InvalidUrl", msg |-> msg]
DatasetNotFound(msg) == [type |-> "DatasetNotFound", msg |-> msg]
InvalidPortalUrl(msg) == [type |-> "InvalidPortalUrl", msg |-> msg]
EmptyResponse == [type |-> "EmptyResponse", msg |-> <<>>]
\* AppError::GeminiError(GeminiErrorDetails::new(kind, message, status_code))
GeminiError(kind, message, status_code) ==
    [type |-> "GeminiError", msg |-> message, kind |-> kind, status_code |-> status_code]

ErrorMessages ==
    {<<>>, <<"connection reset">>, <<"operation timed out">>,
     <<"expected value at line 1 column 1">>}

AppErrors ==
    {DatabaseError(m) : m \in ErrorMessages}
    \cup {ClientError(m) : m \in ErrorMessages}
    \cup {GeminiError(k, m, c) : k \in GeminiErrorKind, m \in ErrorMessages,
                                 c \in {0, 401, 429, 500}}
    \cup {SerializationError(m) : m \in ErrorMessages}
    \cup {InvalidUrl(m) : m \in ErrorMessages}
    \cup {DatasetNotFound(m) : m \in ErrorMessages}
    \cup {InvalidPortalUrl(m) : m \in ErrorMessages}
    \cup {EmptyResponse}
    \cup {NetworkError(m) : m \in ErrorMessages}
    \cup {Timeout(secs) : secs \in {0, 30}}
    \cup {RateLimitExceeded}
    \cup {Generic(m) : m \in ErrorMessages}

\* is_retryable with ClientError among the final errors.
is_retryable_client_error_final(e) ==
    CASE e.type \in {"NetworkError", "Timeout", "RateLimitExceeded"} -> TRUE
      [] e.type = "GeminiError" -> e.kind \in {RateLimit, GeminiNetworkError, ServerError}
      [] OTHER -> FALSE

\* AppError::is_retryable
is_retryable(e) ==
    CASE e.type \in {"NetworkError", "Timeout", "RateLimitExceeded", "ClientError"} -> TRUE
      [] e.type = "GeminiError" -> e.kind \in {RateLimit, GeminiNetworkError, ServerError}
      [] OTHER -> FALSE

\* The body of a 2xx response: it parses as the expected JSON or it does not; a
\* CKAN body that parses carries the success flag.
Bodies ==
    {[json |-> TRUE, success |-> TRUE], [json |-> TRUE, success |-> FALSE],
     [json |-> FALSE, success |-> FALSE]}

\* resp.json().await: the parsed value, or the error of reqwest.
Json(body, result) ==
    IF body.json THEN Ok([success |-> body.success, result |-> result])
    ELSE Err(<<"error decoding response body">>)

\* CkanClient::list_package_ids, from the 2xx response of request_with_retry on.
list_package_ids(body) ==
    LET ckan_resp == Json(body, <<"a", "b">>)
    IN IF ~ckan_resp.ok THEN Err(ClientError(ckan_resp.val))
       ELSE IF ~ckan_resp.val.success
            THEN Err(Generic(<<"CKAN API returned success: false">>))
            ELSE Ok(ckan_resp.val.result)

\* CkanClient::show_package, from the 2xx response of request_with_retry on.
show_package(id, body) ==
    LET ckan_resp == Json(body, CkanDataset(id, 1))
    IN IF ~ckan_resp.ok THEN Err(ClientError(ckan_resp.val))
       ELSE IF ~ckan_resp.val.success
            THEN Err(Generic(<<"CKAN failed to show package ", id>>))
            ELSE Ok(ckan_resp.val.result)

\* GeminiClient::get_embeddings, from a response with status.is_success() on.
get_embeddings(text, body) ==
    LET embedding_response == Json(body, Embedding(text))
    IN IF ~embedding_response.ok
       THEN Err(ClientError(<<"Failed to parse response: ">> \o embedding_response.val))
       ELSE Ok(embedding_response.val.result)

ErrorsInit ==
    /\ DirectIdle
    /\ DecideIdle /\ RepoIdle /\ HarvestIdle /\ RetryIdle /\ TallyIdle

ErrorsFrame == UNCHANGED <<calls, harvestVars, decideVars, repoVars, retryVars, tallyVars>>

\* err.is_retryable()
IsRetryableCall(e) ==
    /\ lastCall = NoCall
    /\ lastCall' = [op |-> "is_retryable", err |-> e, ret |-> is_retryable(e)]
    /\ ErrorsFrame

\* client.list_package_ids().await, the server answering 2xx with body
ListPackageIdsCall(body) ==
    /\ lastCall = NoCall
    /\ lastCall' = [op |-> "list_package_ids", body |-> body, ret |-> list_package_ids(body)]
    /\ ErrorsFrame

\* client.show_package(id).await, the server answering 2xx with body
ShowPackageCall(id, body) ==
    /\ lastCall = NoCall
    /\ lastCall' = [op |-> "show_package", body |-> body, ret |-> show_package(id, body)]
    /\ ErrorsFrame

\* client.get_embeddings(text).await, the service answering 2xx with body
GetEmbeddingsCall(text, body) ==
    /\ lastCall = NoCall
    /\ lastCall' = [op |-> "get_embeddings", body |-> body, ret |-> get_embeddings(text, body)]
    /\ ErrorsFrame

ErrorsNext ==
    \/ \E e \in AppErrors : IsRetryableCall(e)
    \/ \E body \in Bodies : ListPackageIdsCall(body)
    \/ \E id \in ListedIds, body \in Bodies : ShowPackageCall(id, body)
    \/ \E body \in Bodies : GetEmbeddingsCall("Title Notes", body)

SpecErrors == ErrorsInit /\ [][ErrorsNext]_vars

\* ------------------------------------------------------------------ AtomicSyncStats

\* Record tasks sharing one Arc<AtomicSyncStats>.
MaxRecorders == 3

\* The record calls one record task can make, in order: none (a blank record
\* saved), the decided outcome, Failed, and Failed once more or after the outcome
\* when the upsert fails too.
RecordCalls ==
    {<<>>, <<"Unchanged">>, <<"Updated">>, <<"Created">>, <<"Failed">>,
     <<"Updated", "Failed">>, <<"Created", "Failed">>, <<"Failed", "Failed">>}

\* The counter stats.record(outcome) adds to.
CounterOf(outcome) ==
    CASE outcome = "Unchanged" -> "unchanged"
      [] outcome = "Updated" -> "updated"
      [] outcome = "Created" -> "created"
      [] outcome = "Failed" -> "failed"

\* A task about to make the calls todo; loaded is a counter value it holds.
Recorder(todo) == [todo |-> todo, recorded |-> <<>>, loaded |-> None]

\* Arc::new(AtomicSyncStats::new()), and the tasks cloned from it.
AtomicInit ==
    /\ portals = <<>> /\ catalog = 0 /\ summary = <<>> /\ portal_i = 1 /\ phase = "done"
    /\ existing_hashes = EmptyMap /\ clean = TRUE /\ runlog = <<>>
    /\ stats = NewStats
    /\ \E n \in 1..MaxRecorders : tasks \in [1..n -> {Recorder(c) : c \in RecordCalls}]
    /\ DecideIdle /\ RepoIdle /\ DirectIdle /\ RetryIdle /\ TallyIdle

AtomicFrame ==
    UNCHANGED <<portals, catalog, summary, portal_i, phase, existing_hashes, clean, runlog,
                calls, decideVars, repoVars, retryVars, tallyVars>>

\* A record that loads the counter and stores the sum in a later step.
AtomicRecord_load_then_store(k) ==
    /\ lastCall = NoCall
    /\ k \in DOMAIN tasks /\ tasks[k].todo # <<>>
    /\ LET outcome == Head(tasks[k].todo)
           c == CounterOf(outcome)
       IN IF tasks[k].loaded = None
          THEN /\ tasks' = [tasks EXCEPT ![k].loaded = Some(stats[c])]
               /\ stats' = stats
          ELSE /\ stats' = [stats EXCEPT ![c] = Unwrap(tasks[k].loaded) + 1]
               /\ tasks' = [tasks EXCEPT ![k].loaded = None,
                                         ![k].todo = Tail(@),
                                         ![k].recorded = Append(@, outcome)]
    /\ UNCHANGED lastCall
    /\ AtomicFrame

\* stats.record(outcome) by task k: one fetch_add, a single atomic
\* read-modify-write of the counter.
AtomicRecord(k) ==
    /\ lastCall = NoCall
    /\ k \in DOMAIN tasks /\ tasks[k].todo # <<>>
    /\ LET outcome == Head(tasks[k].todo)
       IN /\ stats' = Record(stats, outcome)
          /\ tasks' = [tasks EXCEPT ![k].todo = Tail(@),
                                    ![k].recorded = Append(@, outcome)]
    /\ UNCHANGED lastCall
    /\ AtomicFrame

\* stats.to_stats(), after the stream of tasks has been collected.
ToStats ==
    /\ lastCall = NoCall
    /\ \A k \in DOMAIN tasks : tasks[k].todo = <<>>
    /\ lastCall' = [op |-> "to_stats",
                    ret |-> [unchanged |-> stats.unchanged, updated |-> stats.updated,
                             created |-> stats.created, failed |-> stats.failed]]
    /\ UNCHANGED <<tasks, stats>>
    /\ AtomicFrame

AtomicNext ==
    \/ \E k \in 1..MaxRecorders : AtomicRecord(k)
    \/ ToStats

SpecAtomic == AtomicInit /\ [][AtomicNext]_vars

\* ------------------------------------------------------------------ properties: the decider

\* C1: needs_reprocessing returns the row of the decision table its input selects:
\* None gives (Created, true, "new dataset"); Some(None) gives (Updated, true,
\* "legacy record without hash"); Some(Some(h)) gives (Unchanged, false, "content
\* hash matches") when h = new_hash and (Updated, true, "content hash changed")
\* otherwise.  So the outcome is never Failed, and needs_embedding holds exactly
\* when the outcome is not Unchanged.
C1_DecisionTable ==
    IsSome(decision) =>
        LET d == Unwrap(decision)
        IN /\ existing_hash = None =>
                d = [needs_embedding |-> TRUE, outcome |-> "Created", reason |-> "new dataset"]
           /\ existing_hash = Some(None) =>
                d = [needs_embedding |-> TRUE, outcome |-> "Updated",
                     reason |-> "legacy record without hash"]
           /\ existing_hash = Some(Some(new_hash)) =>
                d = [needs_embedding |-> FALSE, outcome |-> "Unchanged",
                     reason |-> "content hash matches"]
           /\ (\E h \in Digests : h # new_hash /\ existing_hash = Some(Some(h))) =>
                d = [needs_embedding |-> TRUE, outcome |-> "Updated",
                     reason |-> "content hash changed"]
           /\ d.outcome \in {"Unchanged", "Updated", "Created"}
           /\ d.needs_embedding <=> d.outcome # "Unchanged"

\* The decider has been called on a legacy row.
C1_Witness ==
    /\ IsSome(decision)
    /\ existing_hash = Some(None)
    /\ Unwrap(decision).reason = "legacy record without hash"

\* ------------------------------------------------------------------ properties: the repository

LastKeyRows(st) == RowsOf(st, lastCall.nd.source_portal, lastCall.nd.original_id)

\* C5: an upsert that finds its (source_portal, original_id) in the table keeps the
\* row (same id) and overwrites title, description, url, metadata, content_hash and
\* last_updated_at with the supplied values and the statement's time; embedding
\* becomes the supplied one when one is supplied and stays what it was (NULL
\* included) when none is.
C5_UpsertOverwrites ==
    lastCall.op = "upsert" =>
        \A old \in LastKeyRows(lastCall.before) :
            \E r \in LastKeyRows(store) :
                /\ r.id = old.id
                /\ r.title = lastCall.nd.title
                /\ r.description = lastCall.nd.description
                /\ r.url = lastCall.nd.url
                /\ r.metadata = lastCall.nd.metadata
                /\ r.content_hash = Some(lastCall.nd.content_hash)
                /\ r.last_updated_at = lastCall.at
                /\ IsSome(lastCall.nd.embedding) => r.embedding = lastCall.nd.embedding
                /\ ~IsSome(lastCall.nd.embedding) => r.embedding = old.embedding

\* An upsert without an embedding has met a row that carries one and differs from
\* the supplied values, and the row still carries that embedding.
C5_Witness ==
    /\ lastCall.op = "upsert"
    /\ lastCall.nd.embedding = None
    /\ \E old \in LastKeyRows(lastCall.before) :
          /\ IsSome(old.embedding)
          /\ old.title # lastCall.nd.title
          /\ \E r \in LastKeyRows(store) : r.embedding = old.embedding

\* C6: the table never holds two rows with the same (source_portal, original_id),
\* whatever upsert and update_timestamp_only statements have run and in whatever
\* order (concurrent calls reach the table as single statements, one after another).
C6_UniqueKey ==
    \A r1, r2 \in store : Key(r1) = Key(r2) => r1 = r2

\* Two rows are stored and the last statement was an upsert of a key already there.
C6_Witness ==
    /\ lastCall.op = "upsert"
    /\ LastKeyRows(lastCall.before) # {}
    /\ Cardinality(store) = 2

\* C7: right after an upsert of N returns, get_hashes_for_portal(N.source_portal)
\* maps N.original_id to Some(N.content_hash), whether the row was inserted or
\* was there before, with a hash or without.
C7_HashReadBack ==
    lastCall.op = "upsert" =>
        MapGet(GetHashesForPortal(store, lastCall.nd.source_portal), lastCall.nd.original_id)
            = Some(Some(lastCall.nd.content_hash))

\* The upsert met a legacy row (hash NULL), and the hash now reads back.
C7_Witness ==
    /\ lastCall.op = "upsert"
    /\ \E old \in LastKeyRows(lastCall.before) : old.content_hash = None
    /\ MapGet(GetHashesForPortal(store, lastCall.nd.source_portal), lastCall.nd.original_id)
            = Some(Some(lastCall.nd.content_hash))

\* ------------------------------------------------------------------ properties: the harvest

Last(seq) == seq[Len(seq)]

\* The calls of a record task's trace that failed, among those that count.
FailedCalls(trace) ==
    {j \in DOMAIN trace :
        /\ trace[j].call \in {"show_package", "get_embeddings", "upsert"}
        /\ ~trace[j].ok}

FailedRecorded(t) == Cardinality({j \in DOMAIN t.recorded : t.recorded[j] = "Failed"})

RECURSIVE SumFailedRecorded(_)
SumFailedRecorded(ts) ==
    IF ts = <<>> THEN 0
    ELSE FailedRecorded(Last(ts)) + SumFailedRecorded(SubSeq(ts, 1, Len(ts) - 1))

EmbeddingFailed(t) == Called("get_embeddings", FALSE) \in {t.trace[j] : j \in DOMAIN t.trace}

\* Runs k-1 and k are two syncs in a row of one portal with the same listing and
\* the same records, every catalog call and store call of both having succeeded.
TwiceInARow(k) ==
    /\ runlog[k - 1].url = runlog[k].url
    /\ runlog[k - 1].ids = runlog[k].ids
    /\ runlog[k - 1].rev = runlog[k].rev
    /\ runlog[k - 1].returned = "ok" /\ runlog[k].returned = "ok"
    /\ runlog[k - 1].clean /\ runlog[k].clean

\* C2: when sync_portal runs twice in a row on a portal whose listing and records
\* stay the same, and every catalog and store call of both runs succeeds (the
\* embedding calls may fail), the second run returns unchanged = number of listed
\* ids, updated = 0, created = 0, failed = 0.
C2_SecondRunUnchanged ==
    \A k \in 2..Len(runlog) :
        TwiceInARow(k) =>
            summary[k].stats = [unchanged |-> Len(runlog[k].ids), updated |-> 0,
                                created |-> 0, failed |-> 0]

\* A first run that created or updated two listed records, one embedding call
\* having failed, is followed by a second run that finds both unchanged.
C2_Witness ==
    /\ Len(runlog) = 2
    /\ TwiceInARow(2)
    /\ Len(runlog[2].ids) = 2
    /\ summary[1].stats.failed > 0
    /\ summary[1].stats.unchanged = 0
    /\ summary[2].stats.unchanged = 2

\* C3: a record task decided Updated or Created whose embedding call failed goes on
\* to call upsert with the record's title, description, url, metadata and new
\* content_hash and without an embedding; when that upsert succeeds the row holds
\* those values, and the task has incremented failed once and no other counter.
C3_EmbeddingFailureStillUpserts ==
    \A k \in DOMAIN tasks :
        LET t == tasks[k]
            nd == Unwrap(t.nd)
        IN EmbeddingFailed(t) =>
            /\ Unwrap(t.decision).outcome \in {"Updated", "Created"}
            /\ t.pc \in {"upsert", "done"}
            /\ t.pc = "done" => Last(t.trace).call = "upsert"
            /\ nd.embedding = None
            /\ nd = IntoNewDataset(CkanDataset(Resolve(t.id), catalog), Portal.url)
            /\ (t.pc = "done" /\ t.result = "ok") =>
                  /\ t.recorded = <<"Failed">>
                  /\ \E r \in RowsOf(store, nd.source_portal, nd.original_id) :
                        /\ r.title = nd.title
                        /\ r.description = nd.description
                        /\ r.url = nd.url
                        /\ r.metadata = nd.metadata
                        /\ r.content_hash = Some(nd.content_hash)

\* A task decided Created lost its embedding call, upserted, and the sync's
\* statistics show one failure and nothing created.
C3_Witness ==
    /\ phase = "fanout" /\ Len(tasks) = 1
    /\ tasks[1].pc = "done" /\ tasks[1].result = "ok"
    /\ EmbeddingFailed(tasks[1])
    /\ Unwrap(tasks[1].decision).outcome = "Created"
    /\ stats = [unchanged |-> 0, updated |-> 0, created |-> 0, failed |-> 1]
    /\ \E r \in store : r.embedding = None /\ r.content_hash = Some(Unwrap(tasks[1].nd).content_hash)

\* The record task at position k takes the step, and its decision is Unchanged.
UnchangedTaskStep(k) ==
    /\ phase = "fanout" /\ phase' = "fanout"
    /\ k \in DOMAIN tasks
    /\ tasks'[k] # tasks[k]
    /\ IsSome(tasks'[k].decision)
    /\ Unwrap(tasks'[k].decision).outcome = "Unchanged"

\* Row r2 is row r with nothing but last_updated_at possibly different.
OnlyTimestampDiffers(r, r2) ==
    /\ r2.id = r.id
    /\ r2.original_id = r.original_id
    /\ r2.source_portal = r.source_portal
    /\ r2.content_hash = r.content_hash
    /\ r2.embedding = r.embedding
    /\ r2.title = r.title
    /\ r2.description = r.description
    /\ r2.url = r.url
    /\ r2.metadata = r.metadata
    /\ r2.first_seen_at = r.first_seen_at

\* C4: every step of a record task whose decision is Unchanged leaves each stored
\* row's content_hash, embedding, title, description, url, metadata and
\* first_seen_at as they were and adds or removes no row; a successful
\* update_timestamp_only sets last_updated_at of the record's row to the time
\* of the statement and of no other row.
C4_UnchangedTouchesTimestampOnly ==
    [][\A k \in Positions :
          UnchangedTaskStep(k) =>
              LET nd == Unwrap(tasks'[k].nd)
                  touched == Last(tasks'[k].trace) = Called("update_timestamp_only", TRUE)
              IN /\ Cardinality(store') = Cardinality(store)
                 /\ \A r \in store : \E r2 \in store' :
                       /\ OnlyTimestampDiffers(r, r2)
                       /\ r2.last_updated_at =
                             IF touched /\ Key(r) = <<nd.source_portal, nd.original_id>>
                             THEN now' ELSE r.last_updated_at]_vars

\* An Unchanged task has touched its row: the row keeps its hash and its
\* embedding and its last_updated_at is later than its first_seen_at.
C4_Witness ==
    \E k \in DOMAIN tasks :
        /\ tasks[k].pc = "done"
        /\ IsSome(tasks[k].decision)
        /\ Unwrap(tasks[k].decision).outcome = "Unchanged"
        /\ Last(tasks[k].trace) = Called("update_timestamp_only", TRUE)
        /\ \E r \in RowsOf(store, Portal.url, Unwrap(tasks[k].nd).original_id) :
              /\ IsSome(r.embedding)
              /\ r.content_hash = Some(Unwrap(tasks[k].nd).content_hash)
              /\ r.last_updated_at > r.first_seen_at

\* C8: a sync_portal error becomes a failure result with zero statistics and the
\* loop goes on: sync_portal is called once for every portal of the list, and
\* the summary batch_harvest returns has exactly one result per input portal.
C8_BatchNeverAborts ==
    /\ \A k \in DOMAIN runlog :
          runlog[k].returned = "err" =>
              /\ k \in DOMAIN summary
              /\ IsSome(summary[k].error)
              /\ summary[k].stats = [unchanged |-> 0, updated |-> 0, created |-> 0, failed |-> 0]
              /\ summary[k].portal_url = runlog[k].url
    /\ phase = "done" =>
          /\ Len(summary) = Len(portals)
          /\ Len(runlog) = Len(portals)
          /\ \A k \in DOMAIN portals : runlog[k].url = portals[k].url

\* The first portal failed, the second was synced all the same, and the batch
\* has returned two results.
C8_Witness ==
    /\ phase = "done"
    /\ Len(portals) = 2 /\ Len(summary) = 2
    /\ IsSome(summary[1].error)
    /\ summary[2].error = None
    /\ Total(summary[2].stats) > 0

\* C9: portals are synced one at a time in list order: while the sync of portal i
\* runs, the results of portals 1..i-1, and only those, are in the summary in
\* list order; every record task belongs to portal i; and between two syncs no
\* record task is outstanding.
C9_SequentialInOrder ==
    /\ Len(summary) = portal_i - 1
    /\ Len(runlog) = portal_i - 1
    /\ \A k \in DOMAIN summary :
          /\ summary[k].portal_name = portals[k].name
          /\ summary[k].portal_url = portals[k].url
          /\ runlog[k].url = portals[k].url
    /\ phase # "fanout" => tasks = <<>>
    /\ \A k \in DOMAIN tasks :
          IsSome(tasks[k].nd) => Unwrap(tasks[k].nd).source_portal = portals[portal_i].url

\* The second portal's record tasks are in flight after the first portal's sync
\* has returned its result.
C9_Witness ==
    /\ phase = "fanout" /\ portal_i = 2
    /\ InFlight # {}
    /\ Len(summary) = 1
    /\ summary[1].error = None
    /\ Total(summary[1].stats) > 0

\* C10: every failed show_package, get_embeddings or upsert call of a record task
\* increments failed; the statistics' failed counter is the number of those
\* failures; the task's failure stops no other task, so a sync that listed ids
\* returns Ok with every listed id processed, however many tasks failed.
C10_FailureIsolation ==
    /\ \A k \in DOMAIN tasks : FailedRecorded(tasks[k]) = Cardinality(FailedCalls(tasks[k].trace))
    /\ phase = "fanout" => stats.failed = SumFailedRecorded(tasks)
    /\ \A k \in DOMAIN tasks :
          (tasks[k].pc = "done" /\ tasks[k].result = "err") =>
              /\ Last(tasks[k].trace).call \in {"show_package", "upsert"}
              /\ ~Last(tasks[k].trace).ok
    /\ \A k \in DOMAIN runlog :
          runlog[k].ids # <<>> =>
              /\ runlog[k].returned = "ok"
              /\ runlog[k].processed = Len(runlog[k].ids)
              /\ summary[k].error = None

\* The first task's show_package failed, the second task went on to save its
\* record, and sync_portal has returned Ok with the failure counted.
C10_Witness ==
    /\ Len(runlog) = 1 /\ Len(runlog[1].ids) = 2
    /\ runlog[1].returned = "ok"
    /\ ~runlog[1].clean
    /\ summary[1].stats.failed = 1
    /\ summary[1].stats.created = 1

\* ------------------------------------------------------------------ properties: portal-level failures

Setup == {"batch", "get_hashes_for_portal", "list_package_ids"}

\* This step is sync_portal returning an error to batch_harvest.
ReturnsErr == Len(runlog') = Len(runlog) + 1 /\ Last(runlog').returned = "err"

\* Some awaited call of a record task failed.
TaskCallFailed == \E k \in DOMAIN tasks : \E j \in DOMAIN tasks[k].trace : ~tasks[k].trace[j].ok

\* C11: sync_portal returns an error exactly from its setup: at once when the
\* portal url does not parse, and otherwise only out of get_hashes_for_portal or
\* list_package_ids; no failed setup call lets the sync reach its record tasks;
\* and during setup, up to and including the error return, no record task
\* exists, so none has called the embedder, and the table is not written.
C11_SetupFailureAborts ==
    [][/\ ReturnsErr => phase \in Setup
       /\ (phase = "batch" /\ portal_i <= Len(portals) /\ ~UrlParses(Portal.url)) => ReturnsErr
       /\ (phase \in Setup /\ phase' # "fanout") =>
             /\ tasks = <<>> /\ tasks' = <<>>
             /\ store' = store /\ now' = now
       /\ (phase' = "fanout" /\ ~clean') => TaskCallFailed']_vars

\* A sync whose url parsed has returned an error, and the table is as the batch
\* found it.
C11_Witness ==
    /\ Len(runlog) = 1
    /\ runlog[1].returned = "err"
    /\ UrlParses(runlog[1].url)
    /\ IsSome(summary[1].error)
    /\ store = {HarvestedRow} /\ now = 0

\* C12: at every moment of a sync_portal at most 10 record tasks are in flight
\* (polled and not yet finished), however many ids were listed.
C12_AtMostTenInFlight ==
    Cardinality(InFlight) <= 10

\* Ten record tasks are in flight while listed ids still wait to be polled.
C12_Witness ==
    /\ Cardinality(InFlight) = 10
    /\ \E k \in DOMAIN tasks : tasks[k].pc = "pending"
    /\ Len(tasks) > 10

\* ------------------------------------------------------------------ properties: the snapshot

Syncing == {"get_hashes_for_portal", "list_package_ids", "fanout"}

\* This step is sync_portal returning Ok(stats) to batch_harvest.
ReturnsOk == Len(runlog') = Len(runlog) + 1 /\ Last(runlog').returned = "ok"

RECURSIVE SumRecorded(_, _)
SumRecorded(ts, outcome) ==
    IF ts = <<>> THEN 0
    ELSE Cardinality({j \in DOMAIN Last(ts).recorded : Last(ts).recorded[j] = outcome})
         + SumRecorded(SubSeq(ts, 1, Len(ts) - 1), outcome)

\* C13: sync_portal returns Ok only when every record task has finished, and the
\* statistics it returns count every increment any of its record tasks made;
\* increments happen only while the fan-out runs, and a returned result is
\* never changed afterwards.  When every awaited call returns, a sync_portal that
\* has started returns.
C13_SnapshotAfterAllTasks ==
    /\ [][/\ ReturnsOk =>
               /\ phase = "fanout" /\ AllDone
               /\ Last(summary').stats =
                     [unchanged |-> SumRecorded(tasks, "Unchanged"),
                      updated |-> SumRecorded(tasks, "Updated"),
                      created |-> SumRecorded(tasks, "Created"),
                      failed |-> SumRecorded(tasks, "Failed")]
          /\ Total(stats') > Total(stats) => phase = "fanout" /\ phase' = "fanout"
          /\ \A k \in DOMAIN summary : k \in DOMAIN summary' /\ summary'[k] = summary[k]]_vars
    /\ (phase \in Syncing) ~> (phase \notin Syncing)

\* A sync of two listed ids has returned Ok after both tasks finished, one saved
\* with its embedding and one found unchanged.
C13_Witness ==
    /\ Len(runlog) = 1
    /\ runlog[1].returned = "ok"
    /\ runlog[1].processed = 2
    /\ summary[1].stats.unchanged = 1
    /\ Total(summary[1].stats) = 2

\* ------------------------------------------------------------------ properties: request_with_retry

Status(c) == [kind |-> "status", status |-> c]

\* Every request sent so far was answered by a.
AllAnswered(a) == responses # <<>> /\ \A j \in DOMAIN responses : responses[j] = a

Retryable(a) ==
    \/ a.kind \in {"timeout", "connect"}
    \/ a.kind = "status" /\ (a.status = 429 \/ IsServerError(a.status))

\* C14: a call all of whose attempts were answered 429 fails, once its attempts
\* are used up, with RateLimitExceeded.
C14_RateLimitClassified ==
    (IsSome(retval) /\ AllAnswered(Status(429))) =>
        /\ Len(responses) = 3
        /\ Unwrap(retval) = Err(RateLimitExceeded)

\* C15: a call all of whose attempts were answered 500 sends exactly 3 requests
\* and then fails with the error recorded for 5xx answers, "Server error: HTTP
\* 500", not with the error given for answers that are not retried.
C15_ServerErrorClassified ==
    (IsSome(retval) /\ AllAnswered(Status(500))) =>
        /\ Len(responses) = 3
        /\ Unwrap(retval) = Err(ClientError(<<"Server error: HTTP ", "500">>))

\* C16: while fewer than 3 requests were sent and each was answered by a 5xx, a
\* 429, a timeout or a connect failure, the call has not returned and goes on to
\* its next request; and as soon as a request is answered 2xx the call returns Ok
\* with that response.  So 503, 503, 200 returns Ok(200) after 3 requests.
C16_SuccessAfterRetries ==
    /\ Len(responses) <= 3
    /\ (Len(responses) < 3 /\ \A j \in DOMAIN responses : Retryable(responses[j])) =>
          /\ retval = None
          /\ attempt = Len(responses) + 1
    /\ (responses # <<>> /\ Last(responses).kind = "status"
           /\ Last(responses).status \in 200..299) =>
          retval = Some(Ok(Last(responses)))

\* 503, 503, 200 has returned the 200 response.
C16_Witness ==
    /\ responses = <<Status(503), Status(503), Status(200)>>
    /\ retval = Some(Ok(Status(200)))
    /\ delays = <<500, 1000>>

OtherClientError(a) ==
    a.kind = "status" /\ a.status \in 400..499 /\ a.status # 429

\* C17: an answer with a 4xx status other than 429 is the last answer of the
\* call, on whichever attempt it comes: the call has returned an error, and no
\* request follows it.
C17_ClientErrorFailsAtOnce ==
    \A j \in DOMAIN responses :
        OtherClientError(responses[j]) =>
            /\ j = Len(responses)
            /\ IsSome(retval)
            /\ ~Unwrap(retval).ok

\* A 404 on the second attempt, after a retried 503, has ended the call.
C17_Witness ==
    /\ responses = <<Status(503), Status(404)>>
    /\ IsSome(retval) /\ ~Unwrap(retval).ok
    /\ attempt = 2

TransportError(k) == [kind |-> k, status |-> 0]

\* The durations slept before requests 2..n under linear backoff.
LinearBackoff(n) == [j \in 1..(n - 1) |-> 500 * j]

C19_SearchOrderedNonNull ==
    lastCall.op = "search" =>
        LET res == lastCall.ret
            q == lastCall.query_vector
        IN /\ \A j \in DOMAIN res :
                 /\ res[j].dataset \in store
                 /\ res[j].dataset.embedding # None
           /\ Len(res) <= lastCall.limit
           /\ lastCall.limit = 0 => res = <<>>
           /\ \A i, j \in DOMAIN res :
                 i < j => res[i].similarity_score >= res[j].similarity_score
           /\ res # <<>> =>
                 \A r \in store :
                    r.embedding # None =>
                       AsF32(Cos1000((Unwrap(r.embedding) - q) % 8)) <= res[1].similarity_score

\* Of three stored rows, one without an embedding and one nearer to the query
\* than the other, a search with k = 2 has returned the two with embeddings,
\* nearest first.
C19_Witness ==
    /\ lastCall.op = "search"
    /\ lastCall.limit = 2
    /\ Cardinality(store) = 3
    /\ \E r \in store : r.embedding = None
    /\ Len(lastCall.ret) = 2
    /\ lastCall.ret[1].similarity_score > lastCall.ret[2].similarity_score

\* ------------------------------------------------------------------ properties: SyncStats

Times(outcome) == Cardinality({j \in DOMAIN outcomes : outcomes[j] = outcome})

\* C20: after any sequence of record calls on a new SyncStats, total() is the
\* number of calls, each counter is the number of calls made with its outcome,
\* and successful() = unchanged + updated + created = total() - failed.
C20_StatsCountCalls ==
    /\ Total(stats) = Len(outcomes)
    /\ stats.unchanged = Times("Unchanged")
    /\ stats.updated = Times("Updated")
    /\ stats.created = Times("Created")
    /\ stats.failed = Times("Failed")
    /\ Successful(stats) = Times("Unchanged") + Times("Updated") + Times("Created")
    /\ Successful(stats) = Total(stats) - stats.failed

\* Four calls, one with each outcome, the failure not last.
C20_Witness ==
    /\ outcomes = <<"Created", "Failed", "Unchanged", "Updated">>
    /\ Total(stats) = 4
    /\ Successful(stats) = 3

\* ------------------------------------------------------------------ properties: BatchHarvestSummary

Successes == {k \in DOMAIN summary : summary[k].error = None}

\* The datasets of the results at the positions ks, summed.
RECURSIVE DatasetsAt(_)
DatasetsAt(ks) ==
    IF ks = {} THEN 0
    ELSE LET k == CHOOSE k \in ks : TRUE
             st == summary[k].stats
         IN st.unchanged + st.updated + st.created + st.failed + DatasetsAt(ks \ {k})

\* C21: after any sequence of add calls, total_portals() is the number of
\* results added, successful_count() + failed_count() = total_portals(),
\* successful_count() is the number of results with error = None, and
\* total_datasets() is the sum of stats.total() over the results, to which the
\* failure results contribute nothing.
C21_SummaryTotals ==
    /\ TotalPortals(summary) = calls
    /\ SuccessfulCount(summary) + FailedCount(summary) = TotalPortals(summary)
    /\ SuccessfulCount(summary) = Cardinality(Successes)
    /\ TotalDatasets(summary) = DatasetsAt(DOMAIN summary)
    /\ TotalDatasets(summary) = DatasetsAt(Successes)

\* Two successes around a failure: 2 of 3 portals succeeded, 5 datasets in all.
C21_Witness ==
    /\ Len(summary) = 3
    /\ summary[1].error = None /\ summary[2].error # None /\ summary[3].error = None
    /\ SuccessfulCount(summary) = 2 /\ FailedCount(summary) = 1
    /\ TotalDatasets(summary) = 5

\* ------------------------------------------------------------------ properties: classify_gemini_error

Classified == lastCall.op = "classify_gemini_error"

\* Neither 401, nor 429, nor 5xx.
OtherStatus(c) == c # 401 /\ c # 429 /\ ~(c \in 500..599)

NamesAuthentication(m) == Contains(m, S_API_key) \/ Contains(m, S_Unauthorized)

\* C22: 401 is Authentication whatever the message; 429 is QuotaExceeded when
\* the message contains "quota" and RateLimit otherwise; 500..599 is ServerError;
\* under any other status a message with none of "API key", "Unauthorized",
\* "rate", "quota" is Unknown and a message with "API key" or "Unauthorized" is
\* Authentication.
C22_ClassifyByStatus ==
    Classified =>
        LET c == lastCall.status_code
            m == lastCall.message
            k == lastCall.ret
        IN /\ c = 401 => k = Authentication
           /\ c = 429 => k = (IF Contains(m, S_quota) THEN QuotaExceeded ELSE RateLimit)
           /\ c \in 500..599 => k = ServerError
           /\ (OtherStatus(c) /\ ~NamesAuthentication(m) /\ ~Contains(m, S_rate)
                  /\ ~Contains(m, S_quota)) => k = Unknown
           /\ (OtherStatus(c) /\ NamesAuthentication(m)) => k = Authentication

\* A 503 whose message names an API key is a ServerError.
C22_Witness ==
    /\ Classified
    /\ lastCall.status_code = 503
    /\ Contains(lastCall.message, S_API_key)
    /\ lastCall.ret = ServerError

\* C23: under every status other than 401 and 429 a message that contains
\* "quota" and neither "API key" nor "Unauthorized" is QuotaExceeded, also when
\* it contains "rate"; and RateLimit is the answer under a status other than 429
\* only for a message that contains "rate" and not "quota".
C23_QuotaBeforeRate ==
    Classified =>
        LET c == lastCall.status_code
            m == lastCall.message
            k == lastCall.ret
        IN /\ (c # 401 /\ c # 429 /\ Contains(m, S_quota) /\ ~NamesAuthentication(m)) =>
                 k = QuotaExceeded
           /\ (c # 429 /\ k = RateLimit) =>
                 (Contains(m, S_rate) /\ ~Contains(m, S_quota))

\* ------------------------------------------------------------------ properties: AppError

\* C24: is_retryable is true for NetworkError, Timeout, RateLimitExceeded,
\* ClientError and GeminiError of kind RateLimit, NetworkError or ServerError;
\* it is false for GeminiError of kind Authentication, QuotaExceeded or Unknown
\* and for InvalidPortalUrl, InvalidUrl, DatasetNotFound, EmptyResponse,
\* DatabaseError, SerializationError and Generic.
C24_RetryableTable ==
    lastCall.op = "is_retryable" =>
        LET e == lastCall.err
            yes == e.type \in {"NetworkError", "Timeout", "RateLimitExceeded", "ClientError"}
                   \/ (e.type = "GeminiError"
                          /\ e.kind \in {"RateLimit", "NetworkError", "ServerError"})
            no == e.type \in {"InvalidPortalUrl", "InvalidUrl", "DatasetNotFound",
                              "EmptyResponse", "DatabaseError", "SerializationError",
                              "Generic"}
                  \/ (e.type = "GeminiError"
                         /\ e.kind \in {"Authentication", "QuotaExceeded", "Unknown"})
        IN /\ yes \/ no
           /\ yes => lastCall.ret = TRUE
           /\ no => lastCall.ret = FALSE

\* A ClientError was found retryable.
C24_Witness ==
    /\ lastCall.op = "is_retryable"
    /\ lastCall.err.type = "ClientError"
    /\ lastCall.ret = TRUE

\* C25: when list_package_ids, show_package or get_embeddings is given a 2xx
\* response whose body does not parse, it returns an error for which
\* is_retryable() is false.
C25_ParseFailureNotRetryable ==
    (lastCall.op \in {"list_package_ids", "show_package", "get_embeddings"}
        /\ ~lastCall.body.json) =>
        /\ ~lastCall.ret.ok
        /\ ~is_retryable(lastCall.ret.val)

\* ------------------------------------------------------------------ properties: blank records

\* The title and the description hold nothing but spaces.
Blank(nd) ==
    /\ \A i \in DOMAIN nd.title : nd.title[i] = " "
    /\ IsSome(nd.description) =>
          \A i \in DOMAIN Unwrap(nd.description) : Unwrap(nd.description)[i] = " "

\* The record task was decided Created or Updated for a blank record.
BlankTask(t) ==
    /\ IsSome(t.decision) /\ IsSome(t.nd)
    /\ Unwrap(t.decision).outcome \in {"Created", "Updated"}
    /\ Blank(Unwrap(t.nd))

CallsOf(t) == {t.trace[j].call : j \in DOMAIN t.trace}

\* C26: a record decided Created or Updated whose combined text is blank is
\* never sent to the embedding service and goes straight to the upsert; when
\* the upsert succeeds the task has incremented no counter, so the statistics
\* (which count exactly the increments of the tasks) do not include the record.
C26_BlankRecordUncounted ==
    phase = "fanout" =>
        /\ \A k \in DOMAIN tasks :
              BlankTask(tasks[k]) =>
                  /\ "get_embeddings" \notin CallsOf(tasks[k])
                  /\ tasks[k].pc \in {"upsert", "done"}
                  /\ tasks[k].pc = "done" => Last(tasks[k].trace).call = "upsert"
                  /\ tasks[k].result = "ok" =>
                        /\ tasks[k].recorded = <<>>
                        /\ Last(tasks[k].trace) = Called("upsert", TRUE)
        /\ stats = [unchanged |-> SumRecorded(tasks, "Unchanged"),
                    updated |-> SumRecorded(tasks, "Updated"),
                    created |-> SumRecorded(tasks, "Created"),
                    failed |-> SumRecorded(tasks, "Failed")]

\* A blank record was created and nothing was counted for the whole sync.
C26_Witness ==
    /\ phase = "fanout" /\ AllDone
    /\ \E k \in DOMAIN tasks :
          /\ BlankTask(tasks[k])
          /\ Unwrap(tasks[k].decision).outcome = "Created"
          /\ tasks[k].result = "ok"
    /\ Total(stats) < Len(tasks)

\* ------------------------------------------------------------------ properties: ids and timestamps

\* The row of store st that has the key of r.
SameKey(st, r) == {x \in st : Key(x) = Key(r)}

UpsertStep == lastCall'.op = "upsert" /\ calls' = calls + 1

\* C27: no two rows carry the same id; an upsert returns the id of the row of
\* its key, which for a key already stored is the id that row had before; and
\* no statement, upsert or update_timestamp_only, changes the id of a stored
\* row.  So every upsert of a key returns the id of its first insert, and
\* upserts of different keys return different ids.
C27_StableId ==
    /\ [](\A r1, r2 \in store : r1.id = r2.id => r1 = r2)
    /\ [][/\ \A r \in store : \E x \in SameKey(store', r) : x.id = r.id
          /\ UpsertStep =>
                LET nd == lastCall'.nd
                    held == RowsOf(store, nd.source_portal, nd.original_id)
                    holds == RowsOf(store', nd.source_portal, nd.original_id)
                IN /\ \A r \in held : lastCall'.ret = r.id
                   /\ \A r \in holds : lastCall'.ret = r.id
                   /\ holds # {}
                   /\ \A r \in store' \ holds : lastCall'.ret # r.id]_vars

\* The third call upserts a key stored beside another one: it returns the id
\* its row had, and the other row has another id.
C27_Witness ==
    /\ lastCall.op = "upsert" /\ calls = 3
    /\ Cardinality(lastCall.before) = 2
    /\ \E r \in lastCall.before :
          /\ Key(r) = <<lastCall.nd.source_portal, lastCall.nd.original_id>>
          /\ r.id = lastCall.ret
          /\ \E o \in lastCall.before : Key(o) # Key(r) /\ o.id # lastCall.ret

\* C28: under a clock that never runs backwards every stored row has
\* last_updated_at >= first_seen_at, and a statement on a stored row, upsert on
\* conflict or update_timestamp_only, leaves its first_seen_at as it was and
\* never moves its last_updated_at back.
C28_FirstSeenFixed ==
    /\ [](\A r \in store : r.last_updated_at >= r.first_seen_at)
    /\ [][\A r \in store : \E x \in SameKey(store', r) :
              /\ x.first_seen_at = r.first_seen_at
              /\ x.last_updated_at >= r.last_updated_at]_vars

\* A row first seen at 0 was written again at 1, by an upsert on conflict.
C28_Witness ==
    /\ lastCall.op = "upsert"
    /\ lastCall.at = 1
    /\ \E r \in lastCall.before, x \in store :
          /\ Key(r) = <<lastCall.nd.source_portal, lastCall.nd.original_id>>
          /\ Key(x) = Key(r)
          /\ x.first_seen_at = 0 /\ x.last_updated_at = 1

\* ------------------------------------------------------------------ properties: AtomicSyncStats

\* C29: whatever the order in which concurrently running record tasks made
\* their record calls, the snapshot to_stats returns once all of them have
\* finished has, in each counter, the number of record calls made with that
\* outcome.
C29_NoLostUpdate ==
    lastCall.op = "to_stats" =>
        /\ \A k \in DOMAIN tasks : tasks[k].todo = <<>>
        /\ lastCall.ret = [unchanged |-> SumRecorded(tasks, "Unchanged"),
                           updated |-> SumRecorded(tasks, "Updated"),
                           created |-> SumRecorded(tasks, "Created"),
                           failed |-> SumRecorded(tasks, "Failed")]

\* Three tasks recorded Failed five times between them, beside a Created.
C29_Witness ==
    /\ lastCall.op = "to_stats"
    /\ Len(tasks) = 3
    /\ \A k \in DOMAIN tasks : "Failed" \in {tasks[k].recorded[j] : j \in DOMAIN tasks[k].recorded}
    /\ lastCall.ret.failed = 5 /\ lastCall.ret.created = 1

\* ------------------------------------------------------------------ properties: the decision and the snapshot

\* C30: the snapshot of hashes is read once per sync_portal, from the table as
\* it stands before the fan-out, and is not touched while the record tasks run;
\* a task's decision is the decider's answer for the snapshot's entry and the
\* record's own hash, and once taken it is not changed by any step of a peer.
\* So what peers write to the table during the run has no part in a decision.
C30_DecisionFromSnapshot ==
    /\ [](phase = "fanout" =>
            \A k \in DOMAIN tasks :
                IsSome(tasks[k].decision) =>
                    /\ IsSome(tasks[k].nd)
                    /\ Unwrap(tasks[k].decision) =
                          needs_reprocessing(
                              MapGet(existing_hashes, Unwrap(tasks[k].nd).original_id),
                              Unwrap(tasks[k].nd).content_hash))
    /\ [][/\ (phase = "fanout" /\ phase' = "fanout") =>
                /\ existing_hashes' = existing_hashes
                /\ \A k \in DOMAIN tasks :
                      IsSome(tasks[k].decision) => tasks'[k].decision = tasks[k].decision
          /\ existing_hashes' # existing_hashes =>
                /\ phase = "get_hashes_for_portal"
                /\ existing_hashes' = GetHashesForPortal(store, Portal.url)]_vars

\* Two listed ids resolved to one original_id that the snapshot does not hold:
\* both tasks were decided Created and both upserts succeeded, on a single row.
C30_Witness ==
    /\ phase = "fanout" /\ Len(tasks) = 2 /\ AllDone
    /\ tasks[1].id # tasks[2].id
    /\ \A k \in DOMAIN tasks :
          /\ IsSome(tasks[k].decision) /\ Unwrap(tasks[k].decision).outcome = "Created"
          /\ tasks[k].result = "ok"
          /\ Unwrap(tasks[k].nd).original_id = "A"
    /\ MapGet(existing_hashes, "A") = None
    /\ Cardinality(RowsOf(store, Portal.url, "A")) = 1

\* ------------------------------------------------------------------ properties: the attempts of a call

\* C31: whatever the server and the transport answer, a call of
\* request_with_retry sends no more than 3 requests, it has sent at least one
\* when it returns, and it has returned once 3 requests were answered.
C31_OneToThreeRequests ==
    /\ Len(responses) <= 3
    /\ IsSome(retval) => Len(responses) >= 1
    /\ Len(responses) = 3 => IsSome(retval)

\* Three requests were sent, each ending in a transport error that is neither
\* a timeout nor a connect failure, and the call has returned an error.
C31_Witness ==
    /\ Len(responses) = 3
    /\ \A j \in DOMAIN responses : responses[j].kind = "other"
    /\ IsSome(retval) /\ ~Unwrap(retval).ok

\* C38: every request but the last of a call was followed by a sleep before the
\* next request was sent: 500 ms * 2^attempt when it was answered 429, and
\* 500 ms * attempt when it was answered 5xx or ended in a transport error.
C38_BackoffBetweenAttempts ==
    \A j \in 1..(Len(responses) - 1) :
        /\ j \in DOMAIN delays
        /\ delays[j] = IF responses[j] = Status(429) THEN 500 * Pow2(j) ELSE 500 * j

\* ------------------------------------------------------------------ properties: the calls of a record task

\* How often the task has awaited call, whatever the call returned.
CountCalls(t, call) == Cardinality({j \in DOMAIN t.trace : t.trace[j].call = call})

ShowPackageFailed(t) == Called("show_package", FALSE) \in {t.trace[j] : j \in DOMAIN t.trace}

DecidedAs(t, outcomes_) == IsSome(t.decision) /\ Unwrap(t.decision).outcome \in outcomes_

\* C32: a record task calls the embedding service at most once, and only when
\* it was decided Created or Updated for a record whose combined text is not
\* blank; a task decided Unchanged, or whose show_package failed, never calls it.
C32_EmbeddingCalls ==
    phase = "fanout" =>
        \A k \in DOMAIN tasks :
            LET t == tasks[k]
                n == CountCalls(t, "get_embeddings") + (IF t.pc = "get_embeddings" THEN 1 ELSE 0)
            IN /\ n <= 1
               /\ n = 1 => /\ DecidedAs(t, {"Created", "Updated"})
                           /\ ~Blank(Unwrap(t.nd))
               /\ (DecidedAs(t, {"Unchanged"}) \/ ShowPackageFailed(t)) => n = 0

\* Of two finished tasks one was decided Updated and called the embedding
\* service once, the other was decided Unchanged and did not call it.
C32_Witness ==
    /\ phase = "fanout" /\ AllDone
    /\ \E j, k \in DOMAIN tasks :
          /\ DecidedAs(tasks[j], {"Updated"}) /\ CountCalls(tasks[j], "get_embeddings") = 1
          /\ DecidedAs(tasks[k], {"Unchanged"}) /\ CountCalls(tasks[k], "get_embeddings") = 0

\* C33: a record task writes to the store at most once: not at all when
\* show_package failed; when it has finished, exactly one update_timestamp_only
\* and no upsert if it was decided Unchanged, exactly one upsert and no
\* update_timestamp_only if it was decided Created or Updated.
C33_OneStoreWrite ==
    phase = "fanout" =>
        \A k \in DOMAIN tasks :
            LET t == tasks[k]
                upserts == CountCalls(t, "upsert")
                touches == CountCalls(t, "update_timestamp_only")
            IN /\ upserts + touches <= 1
               /\ ShowPackageFailed(t) => upserts + touches = 0
               /\ DecidedAs(t, {"Unchanged"}) =>
                     /\ upserts = 0 /\ t.pc \in {"update_timestamp_only", "done"}
                     /\ t.pc = "done" => touches = 1
               /\ DecidedAs(t, {"Created", "Updated"}) =>
                     /\ touches = 0 /\ t.pc \in {"get_embeddings", "upsert", "done"}
                     /\ t.pc = "done" => upserts = 1

\* Two finished tasks: one decided Unchanged made one update_timestamp_only,
\* one decided Created made one upsert.
C33_Witness ==
    /\ phase = "fanout" /\ AllDone
    /\ \E j, k \in DOMAIN tasks :
          /\ DecidedAs(tasks[j], {"Unchanged"})
          /\ CountCalls(tasks[j], "update_timestamp_only") = 1
          /\ DecidedAs(tasks[k], {"Created"})
          /\ CountCalls(tasks[k], "upsert") = 1

\* ------------------------------------------------------------------ properties: the Unchanged path

\* C34: a record task decided Unchanged has incremented the unchanged counter
\* once and no other counter from its decision on, and when it has finished it
\* has returned Ok, whether update_timestamp_only succeeded, failed, or
\* succeeded on a table that no longer holds the row; the counters are the
\* increments of the tasks.
C34_UnchangedNotReclassified ==
    phase = "fanout" =>
        /\ \A k \in DOMAIN tasks :
              DecidedAs(tasks[k], {"Unchanged"}) =>
                  /\ tasks[k].recorded = <<"Unchanged">>
                  /\ tasks[k].pc = "done" => tasks[k].result = "ok"
        /\ stats.unchanged = SumRecorded(tasks, "Unchanged")
        /\ stats.failed = SumRecorded(tasks, "Failed")

UnchangedEndedWith(t, ok) ==
    /\ DecidedAs(t, {"Unchanged"}) /\ t.pc = "done"
    /\ Last(t.trace) = Called("update_timestamp_only", ok)

\* Two listed ids of the same record were found Unchanged after the row was
\* deleted: one timestamp update failed, the other succeeded and matched no
\* row; unchanged is 2 and failed is 0.
C34_Witness ==
    /\ phase = "fanout" /\ Len(tasks) = 2
    /\ UnchangedEndedWith(tasks[1], FALSE)
    /\ UnchangedEndedWith(tasks[2], TRUE)
    /\ store = {}
    /\ stats = [unchanged |-> 2, updated |-> 0, created |-> 0, failed |-> 0]

\* ------------------------------------------------------------------ properties: one counter per record

\* The task awaited a store write and the write did not fail.
WriteSucceeded(t) ==
    \E j \in DOMAIN t.trace :
        /\ t.trace[j].call \in {"upsert", "update_timestamp_only"}
        /\ t.trace[j].ok

\* C35: a record task increments at most one counter; so the statistics a
\* sync_portal returns have total() no greater than the number of listed ids,
\* and successful() counts no more records than those whose store write was
\* made and did not fail.
C35_AtMostOneCounter ==
    /\ phase = "fanout" => \A k \in DOMAIN tasks : Len(tasks[k].recorded) <= 1
    /\ (phase = "fanout" /\ AllDone) =>
          Successful(stats) <= Cardinality({k \in DOMAIN tasks : WriteSucceeded(tasks[k])})
    /\ \A k \in DOMAIN summary :
          summary[k].error = None => Total(summary[k].stats) <= Len(runlog[k].ids)

\* ------------------------------------------------------------------ properties: the stored embedding

\* The row's embedding is the vector of the row's own title and description.
EmbeddingCurrent(r) == r.embedding = Some(Embedding(CombinedText(r)))

\* C36: in every table a harvest can produce, a row with a content_hash and an
\* embedding has the embedding of the title and description its content_hash
\* was computed from.
C36_EmbeddingNeverStale ==
    \A r \in store :
        (IsSome(r.content_hash) /\ IsSome(r.embedding)) =>
            /\ Unwrap(r.content_hash) = ComputeContentHash(r.title, r.description)
            /\ EmbeddingCurrent(r)

\* ------------------------------------------------------------------ properties: a failed embedding is not retried

\* This step is the upsert of the record task at position k returning Ok.
UpsertReturnsOk(k) ==
    /\ phase = "fanout" /\ k \in DOMAIN tasks
    /\ tasks[k].pc = "upsert"
    /\ tasks'[k].pc = "done" /\ tasks'[k].result = "ok"

\* The embedding column of the row of (portal_url, original_id), NULL when the
\* table has no such row.
StoredEmbedding(st, portal_url, original_id) ==
    IF RowsOf(st, portal_url, original_id) = {} THEN None
    ELSE (CHOOSE r \in RowsOf(st, portal_url, original_id) : TRUE).embedding

\* C37: the upsert of a record task whose embedding call failed stores the
\* record's new content_hash and leaves the row's embedding what it was before
\* (NULL for a row it inserts).  A task whose snapshot entry is the record's
\* hash is decided Unchanged, makes no embedding call, and none of its steps
\* changes an embedding.  So when the portal is harvested again with the same
\* listing and records (all catalog and store calls succeeding), the run after
\* one with failed embedding calls reports every record unchanged and nothing
\* failed: the failed call is not made again.
C37_FailedEmbeddingNotRetried ==
    /\ [][\A k \in Positions :
             (UpsertReturnsOk(k) /\ EmbeddingFailed(tasks[k])) =>
                 LET nd == Unwrap(tasks[k].nd)
                 IN /\ \A r \in RowsOf(store', nd.source_portal, nd.original_id) :
                          r.content_hash = Some(nd.content_hash)
                    /\ StoredEmbedding(store', nd.source_portal, nd.original_id) =
                          StoredEmbedding(store, nd.source_portal, nd.original_id)]_vars
    /\ [](phase = "fanout" =>
             \A k \in DOMAIN tasks :
                 (/\ IsSome(tasks[k].nd)
                  /\ MapGet(existing_hashes, Unwrap(tasks[k].nd).original_id) =
                        Some(Some(Unwrap(tasks[k].nd).content_hash))) =>
                     /\ DecidedAs(tasks[k], {"Unchanged"})
                     /\ tasks[k].pc # "get_embeddings"
                     /\ CountCalls(tasks[k], "get_embeddings") = 0)
    /\ [][\A k \in Positions :
             UnchangedTaskStep(k) =>
                 \A r \in store :
                     StoredEmbedding(store', r.source_portal, r.original_id) = r.embedding]_vars
    /\ [](\A k \in 2..Len(runlog) :
             (TwiceInARow(k) /\ summary[k - 1].stats.failed > 0) =>
                 /\ summary[k].stats.unchanged = Len(runlog[k].ids)
                 /\ summary[k].stats.failed = 0
                 /\ summary[k].stats.updated + summary[k].stats.created = 0)

\* A first harvest of one new record lost its embedding call and saved the
\* record; the second harvest found it unchanged, and the row still has no
\* embedding although its text is not blank.
C37_Witness ==
    /\ Len(runlog) = 2 /\ TwiceInARow(2)
    /\ Len(runlog[2].ids) = 1
    /\ summary[1].stats = [unchanged |-> 0, updated |-> 0, created |-> 0, failed |-> 1]
    /\ summary[2].stats = [unchanged |-> 1, updated |-> 0, created |-> 0, failed |-> 0]
    /\ Cardinality(store) = 1
    /\ \A r \in store : r.embedding = None /\ IsSome(r.content_hash) /\ HasText(r)

\* ------------------------------------------------------------------ truncate_text

\* A &str is a sequence of chars; each char occupies Utf8Len(c) bytes of the
\* string.  "U+00E9" (e acute) and "U+20AC" (euro sign) stand for one char each.
Chars == {"a", "b", " ", "\n", "U+00E9", "U+20AC"}

\* char::len_utf8
Utf8Len(c) == CASE c = "U+00E9" -> 2
                [] c = "U+20AC" -> 3
                [] OTHER -> 1

\* char::is_whitespace
IsWhitespace(c) == c \in {" ", "\n"}

\* str::len: the length in bytes
RECURSIVE ByteLen(_)
ByteLen(s) == IF s = <<>> THEN 0 ELSE Utf8Len(Head(s)) + ByteLen(Tail(s))

\* str::split_whitespace: the maximal runs of chars that are not whitespace
RECURSIVE SplitWhitespace(_)
SplitWhitespace(s) ==
    IF s = <<>> THEN <<>>
    ELSE IF IsWhitespace(Head(s)) THEN SplitWhitespace(Tail(s))
    ELSE LET rest == SplitWhitespace(Tail(s))
         IN IF Len(s) > 1 /\ ~IsWhitespace(s[2])
            THEN <<<<Head(s)>> \o Head(rest)>> \o Tail(rest)
            ELSE <<<<Head(s)>>>> \o rest

\* [&str]::join
RECURSIVE Join(_, _)
Join(words, sep) ==
    IF words = <<>> THEN <<>>
    ELSE IF Len(words) = 1 THEN Head(words)
    ELSE Head(words) \o sep \o Join(Tail(words), sep)

\* str::is_char_boundary
IsCharBoundary(s, index) ==
    \E n \in 0..Len(s) : ByteLen(SubSeq(s, 1, n)) = index

\* The chars of s that lie in its first index bytes (index a char boundary).
BytePrefix(s, index) ==
    SubSeq(s, 1, CHOOSE n \in 0..Len(s) : ByteLen(SubSeq(s, 1, n)) = index)

\* What a call does: it returns a String or it panics.
Returned(value) == [panic |-> FALSE, value |-> value]
Panicked == [panic |-> TRUE, value |-> <<>>]

Ellipsis == <<".", ".", ".">>

MaxTextLen == 4
MaxMaxLen == 4
Texts == UNION {[1..n -> Chars] : n \in 0..MaxTextLen}

\* The whitespace-normalized text of truncate_text.
Cleaned(text) ==
    LET cleaned == [i \in DOMAIN text |-> IF IsWhitespace(text[i]) THEN " " ELSE text[i]]
    IN Join(SplitWhitespace(cleaned), <<" ">>)

\* fn truncate_text(text: &str, max_len: usize) -> String
\* &cleaned[..max_len] panics when max_len is not a char boundary of cleaned.
truncate_text(text, max_len) ==
    LET cleaned == Cleaned(text)
    IN IF ByteLen(cleaned) <= max_len THEN Returned(cleaned)
       ELSE IF IsCharBoundary(cleaned, max_len)
            THEN Returned(BytePrefix(cleaned, max_len) \o Ellipsis)
            ELSE Panicked

TruncateInit ==
    /\ DirectIdle
    /\ DecideIdle /\ RepoIdle /\ HarvestIdle /\ RetryIdle /\ TallyIdle

\* let truncated = truncate_text(desc, 120);
TruncateCall(text, max_len) ==
    /\ lastCall = NoCall
    /\ lastCall' = [op |-> "truncate_text", text |-> text, max_len |-> max_len,
                    ret |-> truncate_text(text, max_len)]
    /\ UNCHANGED <<calls, harvestVars, decideVars, repoVars, retryVars, tallyVars>>

TruncateNext == \E text \in Texts, max_len \in 0..MaxMaxLen : TruncateCall(text, max_len)

SpecTruncate == TruncateInit /\ [][TruncateNext]_vars

\* ------------------------------------------------------------------ properties: truncate_text

\* C39: truncate_text never panics; when the whitespace-normalized text is
\* longer than max_len it returns a prefix of it that ends at a character
\* boundary, followed by "...", and otherwise the normalized text whole.
C39_TruncateNeverPanics ==
    lastCall.op = "truncate_text" =>
        LET cleaned == Cleaned(lastCall.text)
        IN /\ ~lastCall.ret.panic
           /\ IF ByteLen(cleaned) > lastCall.max_len
              THEN \E n \in 0..Len(cleaned) :
                       lastCall.ret.value = SubSeq(cleaned, 1, n) \o Ellipsis
              ELSE lastCall.ret.value = cleaned

====
